---- MODULE Spec2Model ----
(***************************************************************************)
(* Model of the programs of riv25-codetalk.                                *)
(*                                                                         *)
(*   ch03 handler  : reads one balance on a client of its own.             *)
(*   ch04 handler  : one transaction per invocation, no retry.            *)
(*   ch06 handler  : the same transfer wrapped in the OCC retry loop.      *)
(*   ch06 setup.sh : loads accounts2 with parallel workers.                *)
(*   ch07 handler  : sets up, queries and indexes the table accounts7.     *)
(*                                                                         *)
(* Each program has its own specification over its part of the state.      *)
(*                                                                         *)
(* A process is one Lambda execution environment: it owns one module-level *)
(* cachedClient and runs one invocation at a time.  Several processes run  *)
(* concurrently against one datastore.  The datastore gives every          *)
(* transaction a snapshot taken at BEGIN and aborts, at COMMIT, a          *)
(* transaction that wrote a row another transaction committed since that   *)
(* snapshot (SQLSTATE 40001).  Every datastore call may also be answered   *)
(* with an error (a bounded number of times per behaviour).                *)
(*                                                                         *)
(* An action is the code that runs between two awaits of the handler.      *)
(***************************************************************************)
EXTENDS Integers, FiniteSets, Sequences, TLC

\* ---------------------------------------------------------------- bounds
\* invocations one process serves one after the other, and in total
MaxInvocations == 2
MaxTotalInvocations == 2
\* datastore errors that no conflict caused, per behaviour
MaxFaults == 1

\* the retry loop has no cap of its own.  An attempt is repeated only after
\* another invocation's commit or a datastore error, so no count above this
\* one is reachable; the guard on it keeps the counter finite.
MaxAttempts == MaxTotalInvocations + MaxFaults + 1

\* two execution environments of the function, running concurrently
Procs == {"p1", "p2"}
\* account ids a request can name: accounts A and B, and X that has no row
ExistingIds == {"A", "B"}
MissingId == "X"
Ids == ExistingIds \cup {MissingId}
\* amounts a request can name: below, at and above the balances of the table
Amounts == {1, 2}
\* the table as loaded before any transfer
InitAccounts == [id \in ExistingIds |-> IF id = "A" THEN 2 ELSE 1]

\* ------------------------------------------------------------- constants
OccCode == "40001"
ConnCode == "08006"
NoCode == "undefined"
FaultCodes == {OccCode, ConnCode}

VARIABLES
    chapter,        \* which handler is deployed: "ch04" or "ch06"
    accounts,       \* committed table: id -> balance
    cachedClient,   \* per process: NullClient, otherwise the client handle
    pc,             \* per process: what the running invocation awaits
    event,          \* per process: the request of the current invocation
    attempts,       \* per process: the handler's attempts counter
    tx,             \* per process: the open transaction, or NoTx
    outcome,        \* per process: what the invocation returned or threw
    faults,         \* datastore errors not caused by a conflict, so far
    invNo,          \* per process: invocations started (history)
    pre,            \* per process: committed table when the invocation began
    interfered,     \* per process: another process committed meanwhile
    touched,        \* per process: the invocation called getConnection
    last,           \* per process: the latest datastore answer handled
    created,        \* per process: clients constructed by postgres(...) (history)
    begun,          \* per process: transactions the invocation began (history)
    aborts,         \* per process: 40001 answers the invocation got (history)
    commits,        \* per process: transactions the invocation committed (history)
    ledger,         \* per account: net amount of the transfers reported
                    \* successful to their callers (history)
    \* ch03 balance-read handler
    client,         \* per process: the handler's local `client`
    openClients,    \* per process: clients constructed and not yet ended
    pending,        \* per process: what the try/catch settled on, held
                    \* while the finally clause runs
    \* ch06/setup.sh
    THREADS,        \* --threads
    TOTAL_TRANSACTIONS,
    sh,             \* the command the script's shell is at
    t,              \* loop variable of the launch loop and of the merge loop
    start,          \* first index of the next worker's range
    pids,           \* pids=(): the workers recorded, in launch order
    pid,            \* position in pids of the wait loop and of cleanup's loop
    workers,        \* per worker id: phase, range start..end and loop variable i
    uuids,          \* lines of uuids.txt
    workerFiles,    \* per worker id: uuids_worker_<id>.txt, if it exists
    \* ch07 query-optimization handler
    accounts7,      \* the table accounts7: whether it exists, its row count,
                    \* its secondary indexes, the invocation that created it
    issued,         \* per process: statements the invocation issued (history)
    planResult      \* per process: runQuery's planResult

\* state of the other programs of the repository; the transfer handlers
\* have no code that reaches it
ch03Vars == <<client, openClients, pending>>
setupVars == <<THREADS, TOTAL_TRANSACTIONS, sh, t, start, pids, pid, workers,
               uuids, workerFiles>>
ch07Vars == <<accounts7, issued, planResult>>
otherVars == <<ch03Vars, setupVars, ch07Vars>>
\* state only the transfer handlers use
transferVars == <<cachedClient, attempts, tx, pre, interfered, touched, last,
                  begun, aborts, commits, ledger>>
\* what the ch03 handler has no code to reach, and what setup.sh has none
ch03Frame == <<transferVars, setupVars, ch07Vars>>
setupFrame == <<chapter, accounts, pc, event, outcome, invNo, created,
                transferVars, ch03Vars, ch07Vars>>
ch07Frame == <<chapter, accounts, attempts, tx, pre, touched, last, begun,
               aborts, commits, ledger, ch03Vars, setupVars>>

vars == <<chapter, accounts, cachedClient, pc, event, attempts, tx, outcome,
          faults, invNo, pre, interfered, touched, last, created, begun,
          aborts, commits, ledger, otherVars>>

\* ------------------------------------------------------------ data types
Requests == [payer_id : Ids, payee_id : Ids, amount : Amounts]
NoRequest == [payer_id |-> "", payee_id |-> "", amount |-> 0]

NoError == [message |-> "", code |-> ""]
\* new Error(message): a plain Error has no code field
ThrownError(message) == [message |-> message, code |-> NoCode]
\* an error raised by the driver or the datastore carries an SQLSTATE
PostgresError(code) == [message |-> "PostgresError", code |-> code]

InvalidRequest == ThrownError("Payer and payee must be different accounts")
PayerNotFound == ThrownError("Payer account not found")
PayeeNotFound == ThrownError("Payee account not found")
InsufficientBalance == ThrownError("Insufficient balance")
\* reading payerRows[0].balance of an empty result
TypeError == ThrownError("Cannot read properties of undefined")
\* the errors the datastore itself reports
DatastoreErrors == {PostgresError(code) : code \in FaultCodes}

\* values a rejected client.begin can hand to the catch clause: null,
\* undefined, the errors the callback throws, and driver errors with the
\* serialization failure, a deadlock, a connection failure, a constraint
\* violation, a socket error and an empty code
JsNull == [type |-> "null"]
JsUndefined == [type |-> "undefined"]
OtherCodes == {"40P01", "08006", "23505", "ECONNRESET", ""}
ErrorValues ==
    {JsNull, JsUndefined, PayerNotFound, PayeeNotFound, InsufficientBalance}
        \cup {PostgresError(code) : code \in {OccCode} \cup OtherCodes}

NoOutcome == [kind |-> "none", payer_balance |-> 0, attempts |-> 0, error |-> NoError]
\* return { payer_balance, transaction_time, attempts } after the commit
Response_Retries(balance, n) ==
    [kind |-> "response", payer_balance |-> balance, attempts |-> n - 1, error |-> NoError]
Response_Throws(balance, n) ==
    [kind |-> "error", payer_balance |-> 0, attempts |-> 0,
     error |-> [message |-> "Cannot read properties of undefined", code |-> "undefined"]]
Response(balance, n) ==
    [kind |-> "response", payer_balance |-> balance, attempts |-> n, error |-> NoError]
Failure(err) == [kind |-> "error", payer_balance |-> 0, attempts |-> 0, error |-> err]

\* cachedClient = null
NullClient == 0

NoTx == [open |-> FALSE, client |-> NullClient, snap |-> <<>>, view |-> <<>>,
         wset |-> {}, stale |-> {}, ret |-> 0]
NoAnswer == [at |-> "none", error |-> NoError]
Answer(at, err) == [at |-> at, error |-> err]

\* ----------------------------------------------------------- pure helpers
\* parseFloat of the DECIMAL text the driver returns.  Balances of the model
\* are whole numbers far below 2^53, where the conversion is exact.
parseFloat_Abs(balance) == IF balance < 0 THEN 0 - balance ELSE balance
parseFloat(balance) == balance

\* SET balance = balance - ${amount}
Debit_Kept(balance, amount) == balance
Debit(balance, amount) == balance - amount

\* SET balance = balance + ${amount}
Credit_Lost(balance, amount) == balance
Credit_Twice(balance, amount) == balance + amount + amount
Credit(balance, amount) == balance + amount

\* payerRows.length === 0
PayerMissing_Never(length) == FALSE
PayerMissing(length) == length = 0

\* payerBalance < 0
IsNegative_Never(payerBalance) == FALSE
IsNegative_Flipped(payerBalance) == payerBalance > 0
IsNegative_OrZero(payerBalance) == payerBalance <= 0
IsNegative(payerBalance) == payerBalance < 0

\* payeeResult.count !== 1
PayeeMissing_Never(count) == FALSE
PayeeMissing(count) == count # 1

\* error?.code: undefined for null, for undefined and for a value that has
\* no code field
CodeOf(error) == IF "code" \in DOMAIN error THEN error.code ELSE NoCode

\* error?.code === '40001'
isOccError_Never(error) == FALSE
isOccError_Always(error) == TRUE
isOccError_AnyCode(error) == error.code # NoCode
isOccError_ConnToo(error) == CodeOf(error) \in {"40001", "08006"}
isOccError_RollbackClass(error) == CodeOf(error) \in {"40001", "40P01", "40002", "40003"}
isOccError(error) == CodeOf(error) = OccCode

\* does the handler have the retry loop
HasRetryLoop_Always == TRUE
HasRetryLoop_None == FALSE
HasRetryLoop == chapter = "ch06"

\* event.payer_id === event.payee_id
SameAccount_Never(req) == FALSE
SameAccount(req) == req.payer_id = req.payee_id

\* rows an UPDATE ... WHERE id = ${id} matches in the transaction's view
RowsMatched(view, id) == IF id \in DOMAIN view THEN 1 ELSE 0

Sum(f) ==
    LET RECURSIVE S(_)
        S(D) == IF D = {} THEN 0
                ELSE LET d == CHOOSE x \in D : TRUE IN f[d] + S(D \ {d})
    IN S(DOMAIN f)

\* the callback the ch04 handler passes to client.begin, as a function of the
\* table the transaction sees: the error it throws, or the table it leaves
\* to commit and the payer_balance it returns
Ch04Transfer(table, request) ==
    LET payer == request.payer_id
        payee == request.payee_id
        failed(err) == [error |-> err, table |-> table, payer_balance |-> 0]
    IN  IF payer \notin DOMAIN table
        THEN failed(PayerNotFound)
        ELSE IF table[payer] - request.amount < 0
        THEN failed(InsufficientBalance)
        ELSE IF payee \notin DOMAIN table
        THEN failed(PayeeNotFound)
        ELSE [error |-> NoError,
              table |-> [id \in DOMAIN table |->
                            IF id = payer THEN table[id] - request.amount
                            ELSE IF id = payee THEN table[id] + request.amount
                            ELSE table[id]],
              payer_balance |-> table[payer] - request.amount]

\* ------------------------------------------------------------------ Init
\* a cold execution environment of a handler, and the table as loaded
HandlerInit ==
    /\ accounts = InitAccounts
    /\ cachedClient = [p \in Procs |-> NullClient]
    /\ pc = [p \in Procs |-> "idle"]
    /\ event = [p \in Procs |-> NoRequest]
    /\ attempts = [p \in Procs |-> 0]
    /\ tx = [p \in Procs |-> NoTx]
    /\ outcome = [p \in Procs |-> NoOutcome]
    /\ faults = 0
    /\ invNo = [p \in Procs |-> 0]
    /\ pre = [p \in Procs |-> accounts]
    /\ interfered = [p \in Procs |-> FALSE]
    /\ touched = [p \in Procs |-> FALSE]
    /\ last = [p \in Procs |-> NoAnswer]
    /\ created = [p \in Procs |-> 0]
    /\ begun = [p \in Procs |-> 0]
    /\ aborts = [p \in Procs |-> 0]
    /\ commits = [p \in Procs |-> 0]
    /\ ledger = [id \in ExistingIds |-> 0]

\* the ch03 handler has not run: no client constructed
Ch03Init ==
    /\ client = [p \in Procs |-> NullClient]
    /\ openClients = [p \in Procs |-> {}]
    /\ pending = [p \in Procs |-> NoOutcome]

\* ---------------------------------------------- ch06/setup.sh: the loader
\* TOTAL_TRANSACTIONS=1000
TotalTransactions == 1000

NoWorker == [phase |-> "none", start |-> 0, end |-> 0, i |-> 0,
             reaped |-> FALSE]
NoFile == [exists |-> FALSE, lines |-> <<>>]
\* > "$output_file"
EmptyFile == [exists |-> TRUE, lines |-> <<>>]

\* the script with its arguments parsed and uuids.txt cleared, about to
\* launch its first worker; no worker file is there
ScriptStart(threads, total) ==
    /\ THREADS = threads
    /\ TOTAL_TRANSACTIONS = total
    /\ sh = "launch"
    /\ t = 1
    /\ start = 1
    /\ pids = <<>>
    /\ pid = 1
    /\ workers = [k \in 1..threads |-> NoWorker]
    /\ uuids = <<>>
    /\ workerFiles = [k \in 1..threads |-> NoFile]

\* THREADS=1 unless --threads is given
SetupInit == ScriptStart(1, TotalTransactions)

\* ------------------------------------------------- ch07: table accounts7
IndexType == "idx_accounts7_type"
IndexMetadata == "idx_accounts7_metadata"
IndexCovering == "idx_accounts7_metadata_covering"
\* FROM generate_series(1, 2500)
BatchRows == 2500

NoOwner == [proc |-> "", inv |-> 0]
\* no table accounts7.  `dropped` keeps the indexes the latest DROP TABLE
\* removed with the table (history).
NoTable == [exists |-> FALSE, rows |-> 0, indexes |-> {}, owner |-> NoOwner,
            dropped |-> {}]
\* the table as ch07/setup.sql loads it
SeedTable == [exists |-> TRUE, rows |-> BatchRows + BatchRows,
              indexes |-> {IndexType},
              owner |-> [proc |-> "setup.sql", inv |-> 0], dropped |-> {}]
NoPlan == [scan |-> "", key |-> ""]

\* the ch07 handler has not run and accounts7 does not exist
Ch07Init ==
    /\ accounts7 = NoTable
    /\ issued = [p \in Procs |-> 0]
    /\ planResult = [p \in Procs |-> NoPlan]

OtherInit == Ch03Init /\ SetupInit /\ Ch07Init

Init ==
    /\ chapter \in {"ch04", "ch06"}
    /\ HandlerInit
    /\ OtherInit

\* --------------------------------------------------------------- actions
\* getConnection: create the client once, then return the cached one.
\* The handle of a client is its ordinal among those the process constructed.
GetConnection_Always(p) ==
    /\ created' = [created EXCEPT ![p] = @ + 1]
    /\ cachedClient' = [cachedClient EXCEPT ![p] = created[p] + 1]
GetConnection_FreshAfterError(p) ==
    IF cachedClient[p] # NullClient /\ outcome[p].kind # "error"
    THEN UNCHANGED <<cachedClient, created>>
    ELSE /\ created' = [created EXCEPT ![p] = @ + 1]
         /\ cachedClient' = [cachedClient EXCEPT ![p] = created[p] + 1]
GetConnection(p) ==
    IF cachedClient[p] # NullClient
    THEN UNCHANGED <<cachedClient, created>>
    ELSE /\ created' = [created EXCEPT ![p] = @ + 1]
         /\ cachedClient' = [cachedClient EXCEPT ![p] = created[p] + 1]

\* attempts++
NextAttempt_Stuck(n) == n
NextAttempt(n) == n + 1

\* client.begin rejects: the driver has rolled the transaction back
Rollback_Leak(p) == UNCHANGED tx
Rollback(p) == tx' = [tx EXCEPT ![p] = NoTx]

\* catch (error) { if (isOccError(error)) continue; ... } inside while (true)
Retries_Capped(p, err) == HasRetryLoop /\ isOccError(err) /\ attempts[p] < 2
Retries(p, err) == HasRetryLoop /\ isOccError(err)

\* continue; attempts++; client.begin(...)
Retry_Restart(p) ==
    /\ attempts[p] < MaxAttempts
    /\ attempts' = [attempts EXCEPT ![p] = 1]
    /\ pc' = [pc EXCEPT ![p] = "begin"]
    /\ UNCHANGED outcome
Retry(p) ==
    /\ attempts[p] < MaxAttempts
    /\ attempts' = [attempts EXCEPT ![p] = NextAttempt(@)]
    /\ pc' = [pc EXCEPT ![p] = "begin"]
    /\ UNCHANGED outcome

\* throw error: the invocation ends with the error
Throw_NoReturn(p, err) ==
    /\ outcome' = [outcome EXCEPT ![p] = Failure(err)]
    /\ pc' = [pc EXCEPT ![p] = "begin"]
    /\ UNCHANGED attempts
Throw(p, err) ==
    /\ outcome' = [outcome EXCEPT ![p] = Failure(err)]
    /\ pc' = [pc EXCEPT ![p] = "done"]
    /\ UNCHANGED attempts

\* the handler's catch clauses, run on the error `err` that client.begin
\* rejected with after the answer at `at`; the transaction is rolled back
Catch(p, at, err) ==
    /\ Rollback(p)
    /\ last' = [last EXCEPT ![p] = Answer(at, err)]
    /\ aborts' = [aborts EXCEPT ![p] = IF CodeOf(err) = OccCode THEN @ + 1 ELSE @]
    /\ IF Retries(p, err) THEN Retry(p) ELSE Throw(p, err)

\* the runtime hands an execution environment its next event once the
\* promise of the previous invocation has settled
Idle_Always(p) == TRUE
Idle(p) == pc[p] \in {"idle", "done"}

\* the invocation trigger delivers a request; the handler runs up to its
\* first datastore call
Invoke(p, req) ==
    /\ Idle(p)
    /\ invNo[p] < MaxInvocations
    /\ Sum(invNo) < MaxTotalInvocations
    /\ invNo' = [invNo EXCEPT ![p] = @ + 1]
    /\ event' = [event EXCEPT ![p] = req]
    /\ pre' = [pre EXCEPT ![p] = accounts]
    /\ interfered' = [interfered EXCEPT ![p] = FALSE]
    /\ last' = [last EXCEPT ![p] = NoAnswer]
    /\ tx' = [tx EXCEPT ![p] = NoTx]
    /\ begun' = [begun EXCEPT ![p] = 0]
    /\ aborts' = [aborts EXCEPT ![p] = 0]
    /\ commits' = [commits EXCEPT ![p] = 0]
    /\ IF SameAccount(req)
       THEN /\ outcome' = [outcome EXCEPT ![p] = Failure(InvalidRequest)]
            /\ pc' = [pc EXCEPT ![p] = "done"]
            /\ attempts' = [attempts EXCEPT ![p] = 0]
            /\ touched' = [touched EXCEPT ![p] = FALSE]
            /\ UNCHANGED <<cachedClient, created>>
       ELSE /\ GetConnection(p)
            /\ touched' = [touched EXCEPT ![p] = TRUE]
            /\ attempts' = [attempts EXCEPT ![p] =
                                IF HasRetryLoop THEN NextAttempt(0) ELSE 0]
            /\ outcome' = [outcome EXCEPT ![p] = NoOutcome]
            /\ pc' = [pc EXCEPT ![p] = "begin"]
    /\ UNCHANGED otherVars
    /\ UNCHANGED <<chapter, accounts, faults, ledger>>

\* the datastore answers with an error that is not a detected conflict.
\* A serialization failure is reported for a statement or the COMMIT of an
\* open transaction, never for BEGIN.  An error answer to COMMIT means the
\* transaction was not committed.
Fault(p, at, code) ==
    /\ pc[p] = at
    /\ at = "begin" => code # OccCode
    /\ faults < MaxFaults
    /\ faults' = faults + 1
    /\ Catch(p, at, PostgresError(code))
    /\ UNCHANGED otherVars
    /\ UNCHANGED <<chapter, accounts, cachedClient, event, invNo, pre,
                   interfered, touched, created, begun, commits,
                   ledger>>

\* client.begin: the transaction starts on a snapshot of the committed table
BeginTx(p) ==
    /\ pc[p] = "begin"
    /\ tx' = [tx EXCEPT ![p] = [open |-> TRUE, client |-> cachedClient[p],
                                snap |-> accounts, view |-> accounts,
                                wset |-> {}, stale |-> {}, ret |-> 0]]
    /\ pc' = [pc EXCEPT ![p] = "payer"]
    /\ last' = [last EXCEPT ![p] = Answer("begin", NoError)]
    /\ begun' = [begun EXCEPT ![p] = @ + 1]
    /\ UNCHANGED otherVars
    /\ UNCHANGED <<chapter, accounts, cachedClient, event, attempts, outcome,
                   faults, invNo, pre, interfered, touched, created, aborts,
                   commits, ledger>>

\* the checks on the result of the payer UPDATE, in the order of the code:
\* payerRows.length === 0, then payerRows[0].balance, then payerBalance < 0
PayerCheck_BalanceFirst(length, payerBalance) ==
    IF length = 0 THEN TypeError
    ELSE IF IsNegative(payerBalance) THEN InsufficientBalance
    ELSE NoError
PayerCheck(length, payerBalance) ==
    IF PayerMissing(length) THEN PayerNotFound
    ELSE IF length = 0 THEN TypeError
    ELSE IF IsNegative(payerBalance) THEN InsufficientBalance
    ELSE NoError

\* executeTransfer, first half: the payer UPDATE ... RETURNING balance and
\* the two checks on its result
PayerUpdate(p) ==
    /\ pc[p] = "payer"
    /\ LET req == event[p]
           length == RowsMatched(tx[p].view, req.payer_id)
           newBalance == IF length = 1
                         THEN Debit(tx[p].view[req.payer_id], req.amount)
                         ELSE 0
           payerBalance == parseFloat(newBalance)
           err == PayerCheck(length, payerBalance)
       IN IF err # NoError
          THEN Catch(p, "payer", err)
          ELSE /\ tx' = [tx EXCEPT ![p].view[req.payer_id] = newBalance,
                                   ![p].wset = @ \cup {req.payer_id},
                                   ![p].ret = payerBalance]
               /\ pc' = [pc EXCEPT ![p] = "payee"]
               /\ last' = [last EXCEPT ![p] = Answer("payer", NoError)]
               /\ UNCHANGED <<attempts, outcome, aborts>>
    /\ UNCHANGED otherVars
    /\ UNCHANGED <<chapter, accounts, cachedClient, event, faults, invNo, pre,
                   interfered, touched, created, begun, commits,
                   ledger>>

\* executeTransfer, second half: the payee UPDATE and the row-count check;
\* when the callback returns the driver sends COMMIT
PayeeUpdate(p) ==
    /\ pc[p] = "payee"
    /\ LET req == event[p]
           count == RowsMatched(tx[p].view, req.payee_id)
       IN IF PayeeMissing(count)
          THEN Catch(p, "payee", PayeeNotFound)
          ELSE /\ tx' = [tx EXCEPT ![p].view = [id \in DOMAIN @ |->
                                       IF id = req.payee_id
                                       THEN Credit(@[id], req.amount) ELSE @[id]],
                                   ![p].wset = @ \cup ({req.payee_id} \cap DOMAIN tx[p].view)]
               /\ pc' = [pc EXCEPT ![p] = "commit"]
               /\ last' = [last EXCEPT ![p] = Answer("payee", NoError)]
               /\ UNCHANGED <<attempts, outcome, aborts>>
    /\ UNCHANGED otherVars
    /\ UNCHANGED <<chapter, accounts, cachedClient, event, faults, invNo, pre,
                   interfered, touched, created, begun, commits,
                   ledger>>

\* the datastore detects a conflict at COMMIT: a row this transaction wrote
\* was committed by another transaction after this one's snapshot
Conflicts(p) == tx[p].wset \cap tx[p].stale # {}

CommitConflict(p) ==
    /\ pc[p] = "commit"
    /\ Conflicts(p)
    /\ Catch(p, "commit", PostgresError(OccCode))
    /\ UNCHANGED otherVars
    /\ UNCHANGED <<chapter, accounts, cachedClient, event, faults, invNo, pre,
                   interfered, touched, created, begun, commits,
                   ledger>>

\* payerBalance = await client.begin(...): what the committed callback returned
Returned_FirstAttempt(p) == pre[p][event[p].payer_id] - event[p].amount
Returned(p) == tx[p].ret

\* break; return { payer_balance, transaction_time, attempts }
Break_Missing(p) ==
    /\ attempts[p] < MaxAttempts
    /\ attempts' = [attempts EXCEPT ![p] = NextAttempt(@)]
    /\ pc' = [pc EXCEPT ![p] = "begin"]
    /\ UNCHANGED outcome
Break(p) ==
    /\ outcome' = [outcome EXCEPT ![p] = Response(Returned(p), attempts[p])]
    /\ pc' = [pc EXCEPT ![p] = "done"]
    /\ UNCHANGED attempts

\* the ledger after a transfer was reported successful to its caller
Posted(l, req) ==
    [id \in DOMAIN l |->
        l[id] + (IF id = req.payee_id THEN req.amount ELSE 0)
              - (IF id = req.payer_id THEN req.amount ELSE 0)]

\* COMMIT succeeds: the writes become visible; the handler leaves the loop
\* and returns the response
CommitOk(p) ==
    /\ pc[p] = "commit"
    /\ ~Conflicts(p)
    /\ accounts' = [id \in DOMAIN accounts |->
                      IF id \in tx[p].wset THEN tx[p].view[id] ELSE accounts[id]]
    /\ tx' = [q \in Procs |->
                IF q = p THEN NoTx
                ELSE IF tx[q].open
                     THEN [tx[q] EXCEPT !.stale = @ \cup tx[p].wset]
                     ELSE tx[q]]
    /\ interfered' = [q \in Procs |-> IF q = p THEN interfered[q] ELSE TRUE]
    /\ Break(p)
    /\ commits' = [commits EXCEPT ![p] = @ + 1]
    /\ last' = [last EXCEPT ![p] = Answer("commit", NoError)]
    /\ ledger' = IF outcome'[p].kind = "response"
                 THEN Posted(ledger, event[p])
                 ELSE ledger
    /\ UNCHANGED otherVars
    /\ UNCHANGED <<chapter, cachedClient, event, faults, invNo, pre, touched,
                   created, begun, aborts>>

Next ==
    \/ \E p \in Procs, req \in Requests : Invoke(p, req)
    \/ \E p \in Procs, at \in {"begin", "payer", "payee", "commit"},
          code \in FaultCodes : Fault(p, at, code)
    \/ \E p \in Procs : BeginTx(p)
    \/ \E p \in Procs : PayerUpdate(p)
    \/ \E p \in Procs : PayeeUpdate(p)
    \/ \E p \in Procs : CommitConflict(p)
    \/ \E p \in Procs : CommitOk(p)

Spec == Init /\ [][Next]_vars

\* the datastore answers every call, and the handler runs on each answer
Step(p) ==
    \/ BeginTx(p)
    \/ PayerUpdate(p)
    \/ PayeeUpdate(p)
    \/ CommitConflict(p)
    \/ CommitOk(p)

\* the ch06 function deployed, its invocations scheduled fairly
InitCh06 == Init /\ chapter = "ch06"

LiveSpec == InitCh06 /\ [][Next]_vars /\ \A p \in Procs : WF_vars(Step(p))

\* a datastore that answers every COMMIT with a serialization failure
CommitRejected(p) ==
    /\ pc[p] = "commit"
    /\ Catch(p, "commit", PostgresError(OccCode))
    /\ UNCHANGED otherVars
    /\ UNCHANGED <<chapter, accounts, cachedClient, event, faults, invNo, pre,
                   interfered, touched, created, begun, commits,
                   ledger>>

ConflictNext ==
    \E p \in Procs :
        \/ \E req \in Requests : Invoke(p, req)
        \/ BeginTx(p)
        \/ PayerUpdate(p)
        \/ PayeeUpdate(p)
        \/ CommitRejected(p)

\* the ch06 function against that datastore
ConflictSpec == InitCh06 /\ [][ConflictNext]_vars

\* client.begin rejects with the value `err`, whatever it is, after BEGIN
Rejects(p, err) ==
    /\ pc[p] = "payer"
    /\ Catch(p, pc[p], err)
    /\ UNCHANGED otherVars
    /\ UNCHANGED <<chapter, accounts, cachedClient, event, faults, invNo, pre,
                   interfered, touched, created, begun, commits,
                   ledger>>

\* the request of the invocations that meet those rejections
ClassifyRequest == [payer_id |-> "A", payee_id |-> "B", amount |-> 1]

ClassifyNext ==
    \E p \in Procs :
        \/ Invoke(p, ClassifyRequest)
        \/ BeginTx(p)
        \/ \E err \in ErrorValues : Rejects(p, err)

\* the ch06 function when client.begin rejects with arbitrary values
ClassifySpec == InitCh06 /\ [][ClassifyNext]_vars

\* requests that can name two accounts without a row
OtherMissingId == "Y"
OrderRequests ==
    [payer_id : Ids \cup {OtherMissingId}, payee_id : Ids \cup {OtherMissingId},
     amount : Amounts]

OrderNext ==
    \E p \in Procs :
        \/ \E req \in OrderRequests : Invoke(p, req)
        \/ BeginTx(p)
        \/ PayerUpdate(p)
        \/ PayeeUpdate(p)
        \/ CommitConflict(p)
        \/ CommitOk(p)

\* the ch06 function on those requests, the datastore answering no error
\* but conflicts
OrderSpec == InitCh06 /\ [][OrderNext]_vars

\* requests whose amount the handler takes as it comes: negative, zero or
\* positive, between two accounts that exist
SignedAmounts == {0 - 2, 0 - 1, 0, 1, 2}
SignedRequests == [payer_id : ExistingIds, payee_id : ExistingIds, amount : SignedAmounts]

SignedNext ==
    \E p \in Procs :
        \/ \E req \in SignedRequests : Invoke(p, req)
        \/ BeginTx(p)
        \/ PayerUpdate(p)
        \/ PayeeUpdate(p)
        \/ CommitConflict(p)
        \/ CommitOk(p)

\* the transfer functions on those requests, the datastore answering no
\* error but conflicts
SignedSpec == Init /\ [][SignedNext]_vars

\* ------------------------------------------ ch03: the balance-read handler
\* interface Request { id }
Ch03Requests == [id : Ids]
\* throw new Error(`Account ${event.id} not found`)
AccountNotFound == ThrownError("Account not found")
\* return { balance: balance.toString() }: the driver hands a DECIMAL over as
\* its text, which toString() returns as it is
Ch03Response(balance) == [kind |-> "response", balance |-> balance]

\* getConnection of ch03: every call constructs a client with postgres(...)
Ch03GetConnection(p) ==
    /\ created' = [created EXCEPT ![p] = @ + 1]
    /\ client' = [client EXCEPT ![p] = created[p] + 1]
    /\ openClients' = [openClients EXCEPT ![p] = @ \cup {created[p] + 1}]

\* await client?.end()
End_Leak(p) == UNCHANGED openClients
End(p) ==
    openClients' = [openClients EXCEPT ![p] =
                        IF client[p] = NullClient THEN @ ELSE @ \ {client[p]}]

\* the handler runs up to the await of its SELECT
Ch03Invoke(p, req) ==
    /\ Idle(p)
    /\ invNo[p] < MaxInvocations
    /\ Sum(invNo) < MaxTotalInvocations
    /\ invNo' = [invNo EXCEPT ![p] = @ + 1]
    /\ event' = [event EXCEPT ![p] = req]
    /\ Ch03GetConnection(p)
    /\ pending' = [pending EXCEPT ![p] = NoOutcome]
    /\ outcome' = [outcome EXCEPT ![p] = NoOutcome]
    /\ pc' = [pc EXCEPT ![p] = "select"]
    /\ UNCHANGED <<chapter, accounts, faults, ch03Frame>>

\* SELECT balance FROM accounts WHERE id = ...: the rows are answered; the
\* try block returns the balance or throws on an empty result, and the catch
\* clause rethrows
Ch03Select(p) ==
    /\ pc[p] = "select"
    /\ pending' = [pending EXCEPT ![p] =
                      IF RowsMatched(accounts, event[p].id) = 0
                      THEN Failure(AccountNotFound)
                      ELSE Ch03Response(accounts[event[p].id])]
    /\ pc' = [pc EXCEPT ![p] = "finally"]
    /\ UNCHANGED <<chapter, accounts, event, outcome, faults, invNo, created,
                   client, openClients, ch03Frame>>

\* the SELECT is answered with an error; the catch clause rethrows it
Ch03Fault(p, code) ==
    /\ pc[p] = "select"
    /\ faults < MaxFaults
    /\ faults' = faults + 1
    /\ pending' = [pending EXCEPT ![p] = Failure(PostgresError(code))]
    /\ pc' = [pc EXCEPT ![p] = "finally"]
    /\ UNCHANGED <<chapter, accounts, event, outcome, invNo, created,
                   client, openClients, ch03Frame>>

\* finally { await client?.end() }
Ch03Finally(p) ==
    /\ pc[p] = "finally"
    /\ End(p)
    /\ pc' = [pc EXCEPT ![p] = "settle"]
    /\ UNCHANGED <<chapter, accounts, event, outcome, faults, invNo, created,
                   client, pending, ch03Frame>>

\* the finally clause is through: the handler's promise settles with what
\* the try/catch had settled on
Ch03Settle(p) ==
    /\ pc[p] = "settle"
    /\ outcome' = [outcome EXCEPT ![p] = pending[p]]
    /\ pc' = [pc EXCEPT ![p] = "done"]
    /\ UNCHANGED <<chapter, accounts, event, faults, invNo, created,
                   client, openClients, pending, ch03Frame>>

Ch03Next ==
    \E p \in Procs :
        \/ \E req \in Ch03Requests : Ch03Invoke(p, req)
        \/ Ch03Select(p)
        \/ \E code \in FaultCodes : Ch03Fault(p, code)
        \/ Ch03Finally(p)
        \/ Ch03Settle(p)

InitCh03 == chapter = "ch03" /\ HandlerInit /\ OtherInit

Ch03Spec == InitCh03 /\ [][Ch03Next]_vars

\* ------------------------------------ ch06/setup.sh: launching the workers
\* TRANSACTIONS_PER_THREAD=$((TOTAL_TRANSACTIONS / THREADS))
TRANSACTIONS_PER_THREAD == TOTAL_TRANSACTIONS \div THREADS
\* REMAINDER=$((TOTAL_TRANSACTIONS % THREADS))
REMAINDER == TOTAL_TRANSACTIONS % THREADS

\* end of the range of worker tt, whose range begins at st: the last worker
\* takes the remainder
RangeEnd_NoRemainder(tt, st) == st + TRANSACTIONS_PER_THREAD - 1
RangeEnd(tt, st) ==
    IF tt = THREADS THEN st + TRANSACTIONS_PER_THREAD - 1 + REMAINDER
    ELSE st + TRANSACTIONS_PER_THREAD - 1

\* worker $t $start $end &
Fork ==
    /\ sh = "launch"
    /\ workers' = [workers EXCEPT ![t] =
                      [phase |-> "launched", start |-> start,
                       end |-> RangeEnd(t, start), i |-> start,
                       reaped |-> FALSE]]
    /\ sh' = "record"
    /\ UNCHANGED <<THREADS, TOTAL_TRANSACTIONS, t, start, pids, pid, uuids,
                   workerFiles, faults, setupFrame>>

\* pids+=($!); start=$((end + 1)); t++ and the loop test
Record ==
    /\ sh = "record"
    /\ pids' = Append(pids, t)
    /\ start' = workers[t].end + 1
    /\ t' = t + 1
    /\ sh' = IF t < THREADS THEN "launch" ELSE "wait"
    /\ pid' = 1
    /\ UNCHANGED <<THREADS, TOTAL_TRANSACTIONS, workers, uuids, workerFiles,
                   faults, setupFrame>>

\* thread counts the partition is computed for: the small ones, and the ones
\* around TOTAL_TRANSACTIONS
MaxPartitionThreads == 12
PartitionThreads ==
    (1..MaxPartitionThreads)
        \cup {TotalTransactions - 1, TotalTransactions, TotalTransactions + 1}

PartitionInit ==
    /\ chapter = "ch06"
    /\ HandlerInit
    /\ Ch03Init
    /\ Ch07Init
    /\ \E threads \in PartitionThreads : ScriptStart(threads, TotalTransactions)

PartitionNext == Fork \/ Record

PartitionSpec == PartitionInit /\ [][PartitionNext]_vars

\* -------------------------------------- ch06/setup.sh: workers and parent
\* a worker is a background subshell of the script: it keeps `set -e`, takes
\* the default action on SIGTERM, and is one of: not launched ("none"),
\* launched, in its loop, exited with status 0, failed, killed.  Once it
\* has ended, the shell reaps it when it handles the SIGCHLD, or in a wait.
Alive(k) == workers[k].phase \in {"launched", "loop"}
Exited(k) == workers[k].phase \in {"exit0", "failed"}
\* kill finds the pid: the worker is running, or has ended and is not reaped
Answers(k) == workers[k].phase # "none" /\ ~workers[k].reaped

\* local output_file="uuids_worker_${worker_id}.txt"
OutputFile_Shared(k) == 1
OutputFile(k) == k

\* > "$output_file"
WorkerCreate(k) ==
    /\ workers[k].phase = "launched"
    /\ workers' = [workers EXCEPT ![k].phase = "loop"]
    /\ workerFiles' = [workerFiles EXCEPT ![OutputFile(k)] = EmptyFile]
    /\ UNCHANGED <<THREADS, TOTAL_TRANSACTIONS, sh, t, start, pids, pid, uuids,
                   faults, setupFrame>>

\* one pass of the loop: psql inserts and its output, the ids of
\* transaction i, is appended to the output file (>> creates the file if it
\* is not there)
WorkerTx(k) ==
    /\ workers[k].phase = "loop"
    /\ workers[k].i <= workers[k].end
    /\ workerFiles' = [workerFiles EXCEPT ![OutputFile(k)] =
                          [exists |-> TRUE,
                           lines |-> Append(@.lines, workers[k].i)]]
    /\ workers' = [workers EXCEPT ![k].i = @ + 1]
    /\ UNCHANGED <<THREADS, TOTAL_TRANSACTIONS, sh, t, start, pids, pid, uuids,
                   faults, setupFrame>>

\* psql exits non-zero: under set -e the worker exits with that status
WorkerFail(k) ==
    /\ workers[k].phase = "loop"
    /\ workers[k].i <= workers[k].end
    /\ faults < MaxFaults
    /\ faults' = faults + 1
    /\ workers' = [workers EXCEPT ![k].phase = "failed"]
    /\ UNCHANGED <<THREADS, TOTAL_TRANSACTIONS, sh, t, start, pids, pid, uuids,
                   workerFiles, setupFrame>>

\* the loop is through: the worker exits with status 0
WorkerExit(k) ==
    /\ workers[k].phase = "loop"
    /\ workers[k].i > workers[k].end
    /\ workers' = [workers EXCEPT ![k].phase = "exit0"]
    /\ UNCHANGED <<THREADS, TOTAL_TRANSACTIONS, sh, t, start, pids, pid, uuids,
                   workerFiles, faults, setupFrame>>

\* the shell handles the SIGCHLD of a worker that has ended
Reap(k) ==
    /\ sh \notin {"exit0", "exit1"}
    /\ workers[k].phase \in {"exit0", "failed", "killed"}
    /\ ~workers[k].reaped
    /\ workers' = [workers EXCEPT ![k].reaped = TRUE]
    /\ UNCHANGED <<THREADS, TOTAL_TRANSACTIONS, sh, t, start, pids, pid, uuids,
                   workerFiles, faults, setupFrame>>

\* wait $pid || { echo "Worker failed!"; cleanup; }
WaitPid ==
    /\ sh = "wait"
    /\ Exited(pids[pid])
    /\ workers' = [workers EXCEPT ![pids[pid]].reaped = TRUE]
    /\ IF workers[pids[pid]].phase = "exit0"
       THEN IF pid < Len(pids)
            THEN /\ pid' = pid + 1
                 /\ UNCHANGED <<sh, t>>
            ELSE /\ sh' = "merge"
                 /\ t' = 1
                 /\ UNCHANGED pid
       ELSE /\ sh' = "cleanup"
            /\ pid' = 1
            /\ UNCHANGED t
    /\ UNCHANGED <<THREADS, TOTAL_TRANSACTIONS, start, pids, uuids,
                   workerFiles, faults, setupFrame>>

\* trap cleanup SIGINT SIGTERM: the shell runs the trap once the command it
\* is at has completed, or at once when it is the wait builtin
Signal ==
    /\ sh \in {"launch", "record", "wait", "merge", "report"}
    /\ sh' = "cleanup"
    /\ pid' = 1
    /\ UNCHANGED <<THREADS, TOTAL_TRANSACTIONS, t, start, pids, workers, uuids,
                   workerFiles, faults, setupFrame>>

\* cleanup: for pid in "${pids[@]}"; if kill -0 "$pid"
CleanupCheck ==
    /\ sh = "cleanup"
    /\ IF pid > Len(pids)
       THEN /\ sh' = "cleanup_wait"
            /\ UNCHANGED pid
       ELSE IF Answers(pids[pid])
            THEN /\ sh' = "cleanup_kill"
                 /\ UNCHANGED pid
            ELSE /\ pid' = pid + 1
                 /\ UNCHANGED sh
    /\ UNCHANGED <<THREADS, TOTAL_TRANSACTIONS, t, start, pids, workers, uuids,
                   workerFiles, faults, setupFrame>>

\* cleanup: kill "$pid" 2>/dev/null.  A worker that is running dies of the
\* SIGTERM.  For a pid that is gone kill returns 1, and under set -e the
\* script exits with that status at once.
CleanupKill ==
    /\ sh = "cleanup_kill"
    /\ IF Answers(pids[pid])
       THEN /\ workers' = [workers EXCEPT ![pids[pid]].phase =
                               IF Alive(pids[pid]) THEN "killed" ELSE @]
            /\ pid' = pid + 1
            /\ sh' = "cleanup"
       ELSE /\ sh' = "exit1"
            /\ UNCHANGED <<workers, pid>>
    /\ UNCHANGED <<THREADS, TOTAL_TRANSACTIONS, t, start, pids, uuids,
                   workerFiles, faults, setupFrame>>

\* cleanup: wait, for every child of the shell
CleanupWait ==
    /\ sh = "cleanup_wait"
    /\ \A k \in 1..THREADS : ~Alive(k)
    /\ workers' = [k \in DOMAIN workers |->
                      IF workers[k].phase = "none" THEN workers[k]
                      ELSE [workers[k] EXCEPT !.reaped = TRUE]]
    /\ sh' = "cleanup_rm"
    /\ UNCHANGED <<THREADS, TOTAL_TRANSACTIONS, t, start, pids, pid,
                   uuids, workerFiles, faults, setupFrame>>

\* cleanup: rm -f uuids_worker_*.txt; exit 1
CleanupRm ==
    /\ sh = "cleanup_rm"
    /\ workerFiles' = [k \in DOMAIN workerFiles |-> NoFile]
    /\ sh' = "exit1"
    /\ UNCHANGED <<THREADS, TOTAL_TRANSACTIONS, t, start, pids, pid, workers,
                   uuids, faults, setupFrame>>

\* one pass of the merge loop: if [ -f ... ]; cat ... >> uuids.txt; rm ...
Merge ==
    /\ sh = "merge"
    /\ IF workerFiles[t].exists
       THEN /\ uuids' = uuids \o workerFiles[t].lines
            /\ workerFiles' = [workerFiles EXCEPT ![t] = NoFile]
       ELSE UNCHANGED <<uuids, workerFiles>>
    /\ t' = t + 1
    /\ sh' = IF t < THREADS THEN "merge" ELSE "report"
    /\ UNCHANGED <<THREADS, TOTAL_TRANSACTIONS, start, pids, pid, workers,
                   faults, setupFrame>>

\* echo "Setup complete! ..." and the end of the script
Report ==
    /\ sh = "report"
    /\ sh' = "exit0"
    /\ UNCHANGED <<THREADS, TOTAL_TRANSACTIONS, t, start, pids, pid, workers,
                   uuids, workerFiles, faults, setupFrame>>

\* thread counts and totals the script is run with
MaxThreads == 3
MaxLoadTransactions == 3

SetupStart ==
    /\ chapter = "ch06"
    /\ HandlerInit
    /\ Ch03Init
    /\ Ch07Init
    /\ \E threads \in 1..MaxThreads, total \in 1..MaxLoadTransactions :
            ScriptStart(threads, total)

SetupNext ==
    \/ Fork
    \/ Record
    \/ \E k \in 1..THREADS : WorkerCreate(k)
    \/ \E k \in 1..THREADS : WorkerTx(k)
    \/ \E k \in 1..THREADS : WorkerFail(k)
    \/ \E k \in 1..THREADS : WorkerExit(k)
    \/ \E k \in 1..THREADS : Reap(k)
    \/ WaitPid
    \/ Signal
    \/ CleanupCheck
    \/ CleanupKill
    \/ CleanupWait
    \/ CleanupRm
    \/ Merge
    \/ Report

SetupSpec == SetupStart /\ [][SetupNext]_vars

\* ---------------------------------------- ch07: statements on accounts7
UndefinedTable == "42P01"
DuplicateRelation == "42P07"
\* what the datastore answers a statement with, and the table after it
Ok(tb) == [ok |-> TRUE, error |-> NoError, table |-> tb]
Rejected(tb, code) == [ok |-> FALSE, error |-> PostgresError(code), table |-> tb]

\* DROP TABLE IF EXISTS accounts7 CASCADE
DropTable(tb) == Ok([NoTable EXCEPT !.dropped = tb.indexes])
\* CREATE TABLE accounts7 (...)
CreateTable(tb, who) ==
    IF tb.exists THEN Rejected(tb, DuplicateRelation)
    ELSE Ok([tb EXCEPT !.exists = TRUE, !.rows = 0, !.indexes = {},
                       !.owner = who])
\* CREATE INDEX ASYNC <name> ON accounts7(...)
CreateIndex(tb, name) ==
    IF ~tb.exists THEN Rejected(tb, UndefinedTable)
    ELSE IF name \in tb.indexes THEN Rejected(tb, DuplicateRelation)
    ELSE Ok([tb EXCEPT !.indexes = @ \cup {name}])
\* INSERT INTO accounts7 ... FROM generate_series(1, 2500): the ids of the
\* two batches differ and created_at, the other key column, is random
InsertBatch(tb) ==
    IF ~tb.exists THEN Rejected(tb, UndefinedTable)
    ELSE Ok([tb EXCEPT !.rows = @ + BatchRows])
\* EXPLAIN ANALYZE SELECT ... and SELECT ...: they read the table
Read(tb) == IF ~tb.exists THEN Rejected(tb, UndefinedTable) ELSE Ok(tb)
\* the plan of the SELECT: the planner takes the most specific index there is
QueryPlan(tb, params) ==
    [scan |-> IF IndexCovering \in tb.indexes THEN IndexCovering
              ELSE IF IndexMetadata \in tb.indexes THEN IndexMetadata
              ELSE IF IndexType \in tb.indexes THEN IndexType
              ELSE "Seq Scan",
     key |-> params.metadata_key]
\* the rows of the SELECT: those of the table's content that match
MatchingRows(tb, params) == [of |-> tb.owner, rows |-> tb.rows, where |-> params]

\* ------------------------------------------------------ ch07: the handler
\* interface Request: the operations of the switch, a value that is none of
\* them, and metadata_key given or not
Ch07Operations == {"setup", "query", "optimize", "query_optimized"}
OtherOperation == "drop"
Unset == "undefined"
Ch07Requests == [operation : Ch07Operations \cup {OtherOperation},
                 metadata_key : {Unset, "account_tier_2"}]

\* event.x || default
OrDefault(v, d) == IF v \in {Unset, ""} THEN d ELSE v
\* case 'query': metadata_key, account_type, region_code, status
QueryParams(ev) ==
    [metadata_key |-> OrDefault(ev.metadata_key, "account_tier_1"),
     account_type |-> OrDefault(Unset, "savings"),
     region_code |-> OrDefault(Unset, "US"),
     status |-> OrDefault(Unset, "active")]
\* case 'query_optimized': metadata_key_opt, account_type_opt, ...
QueryParamsOpt_OtherTier(ev) ==
    [metadata_key |-> OrDefault(ev.metadata_key, "account_tier_2"),
     account_type |-> OrDefault(Unset, "savings"),
     region_code |-> OrDefault(Unset, "US"),
     status |-> OrDefault(Unset, "active")]
QueryParamsOpt(ev) ==
    [metadata_key |-> OrDefault(ev.metadata_key, "account_tier_1"),
     account_type |-> OrDefault(Unset, "savings"),
     region_code |-> OrDefault(Unset, "US"),
     status |-> OrDefault(Unset, "active")]
Params(ev) ==
    IF ev.operation = "query" THEN QueryParams(ev) ELSE QueryParamsOpt(ev)

\* throw new Error(`Setup failed: ${error}`)
SetupFailed == ThrownError("Setup failed")
\* throw new Error(`Optimization failed: ${error}`)
OptimizationFailed == ThrownError("Optimization failed")
\* throw new Error(`Unknown operation: ${event.operation}`)
UnknownOperation == ThrownError("Unknown operation")
\* the error the handler ends with when a statement of the operation failed
Wrap(operation, err) ==
    IF operation = "setup" THEN SetupFailed
    ELSE IF operation = "optimize" THEN OptimizationFailed
    ELSE err

\* return { operation, message }
Ch07Message(operation) == [kind |-> "response", operation |-> operation]
\* return { operation, execution_time_ms, rows_returned, query_plan };
\* execution_time_ms is wall-clock time and is left out
Ch07QueryResponse(operation, rows, plan) ==
    [kind |-> "response", operation |-> operation, rows_returned |-> rows,
     query_plan |-> plan]

\* where the switch sends an operation: the first statement it awaits
Dispatch(operation) ==
    IF operation = "setup" THEN "drop"
    ELSE IF operation = "query" THEN "explain"
    ELSE IF operation = "optimize" THEN "opt1"
    ELSE IF operation = "query_optimized" THEN "explain"
    ELSE "done"

\* the handler runs up to the first statement of the operation; getConnection
\* constructs the client at most, and issues no statement
Ch07Invoke(p, req) ==
    /\ Idle(p)
    /\ invNo[p] < MaxInvocations
    /\ Sum(invNo) < MaxTotalInvocations
    /\ invNo' = [invNo EXCEPT ![p] = @ + 1]
    /\ event' = [event EXCEPT ![p] = req]
    /\ GetConnection(p)
    /\ interfered' = [interfered EXCEPT ![p] = FALSE]
    /\ issued' = [issued EXCEPT ![p] = 0]
    /\ planResult' = [planResult EXCEPT ![p] = NoPlan]
    /\ pc' = [pc EXCEPT ![p] = Dispatch(req.operation)]
    /\ outcome' = [outcome EXCEPT ![p] =
                      IF Dispatch(req.operation) = "done"
                      THEN Failure(UnknownOperation) ELSE NoOutcome]
    /\ UNCHANGED <<accounts7, faults, ch07Frame>>

\* the statement p awaits is answered with `res`: on success the operation
\* goes on to `next`, or returns `response` when that was its last
\* statement; a rejected statement ends the invocation.  An invocation is
\* interfered with when another one changes the table while it runs.
Ch07Answered(p, res, next, response) ==
    /\ accounts7' = res.table
    /\ issued' = [issued EXCEPT ![p] = @ + 1]
    /\ interfered' = [q \in Procs |->
                         IF q # p /\ pc[q] \notin {"idle", "done"}
                                  /\ res.table # accounts7
                         THEN TRUE ELSE interfered[q]]
    /\ IF res.ok
       THEN /\ pc' = [pc EXCEPT ![p] = next]
            /\ outcome' = [outcome EXCEPT ![p] =
                              IF next = "done" THEN response ELSE @]
       ELSE /\ pc' = [pc EXCEPT ![p] = "done"]
            /\ outcome' = [outcome EXCEPT ![p] =
                              Failure(Wrap(event[p].operation, res.error))]
    /\ UNCHANGED <<event, invNo, cachedClient, created, faults, ch07Frame>>

\* setupDatabase, statement by statement
Ch07Drop(p) ==
    /\ pc[p] = "drop"
    /\ Ch07Answered(p, DropTable(accounts7), "create", NoOutcome)
    /\ UNCHANGED planResult
Ch07Create(p) ==
    /\ pc[p] = "create"
    /\ Ch07Answered(p, CreateTable(accounts7, [proc |-> p, inv |-> invNo[p]]),
                    "index", NoOutcome)
    /\ UNCHANGED planResult
Ch07Index(p) ==
    /\ pc[p] = "index"
    /\ Ch07Answered(p, CreateIndex(accounts7, IndexType), "insert1", NoOutcome)
    /\ UNCHANGED planResult
Ch07Insert1(p) ==
    /\ pc[p] = "insert1"
    /\ Ch07Answered(p, InsertBatch(accounts7), "insert2", NoOutcome)
    /\ UNCHANGED planResult
Ch07Insert2(p) ==
    /\ pc[p] = "insert2"
    /\ Ch07Answered(p, InsertBatch(accounts7), "done", Ch07Message("setup"))
    /\ UNCHANGED planResult

\* optimizeIndexes
Ch07Opt1(p) ==
    /\ pc[p] = "opt1"
    /\ Ch07Answered(p, CreateIndex(accounts7, IndexMetadata), "opt2", NoOutcome)
    /\ UNCHANGED planResult
Ch07Opt2(p) ==
    /\ pc[p] = "opt2"
    /\ Ch07Answered(p, CreateIndex(accounts7, IndexCovering), "done",
                    Ch07Message("optimize"))
    /\ UNCHANGED planResult

\* runQuery: EXPLAIN ANALYZE, then the query itself
Ch07Explain(p) ==
    /\ pc[p] = "explain"
    /\ Ch07Answered(p, Read(accounts7), "select", NoOutcome)
    /\ planResult' = [planResult EXCEPT ![p] =
                         IF accounts7.exists
                         THEN QueryPlan(accounts7, Params(event[p])) ELSE @]
Ch07Select(p) ==
    /\ pc[p] = "select"
    /\ Ch07Answered(p, Read(accounts7), "done",
                    Ch07QueryResponse(IF event[p].operation = "query"
                                      THEN "query" ELSE "query_optimized",
                                      MatchingRows(accounts7, Params(event[p])),
                                      planResult[p]))
    /\ UNCHANGED planResult

\* a statement is answered with a connectivity error and changes nothing
Ch07Fault(p) ==
    /\ pc[p] \in {"drop", "create", "index", "insert1", "insert2", "opt1",
                  "opt2", "explain", "select"}
    /\ faults < MaxFaults
    /\ faults' = faults + 1
    /\ issued' = [issued EXCEPT ![p] = @ + 1]
    /\ pc' = [pc EXCEPT ![p] = "done"]
    /\ outcome' = [outcome EXCEPT ![p] =
                      Failure(Wrap(event[p].operation, PostgresError(ConnCode)))]
    /\ UNCHANGED <<accounts7, planResult, interfered, event, invNo,
                   cachedClient, created, ch07Frame>>

Ch07Next ==
    \E p \in Procs :
        \/ \E req \in Ch07Requests : Ch07Invoke(p, req)
        \/ Ch07Drop(p)
        \/ Ch07Create(p)
        \/ Ch07Index(p)
        \/ Ch07Insert1(p)
        \/ Ch07Insert2(p)
        \/ Ch07Opt1(p)
        \/ Ch07Opt2(p)
        \/ Ch07Explain(p)
        \/ Ch07Select(p)
        \/ Ch07Fault(p)

\* a cold function; accounts7 is not there, or is as setup.sql loaded it
InitCh07 ==
    /\ chapter = "ch07"
    /\ HandlerInit
    /\ Ch03Init
    /\ SetupInit
    /\ accounts7 \in {NoTable, SeedTable}
    /\ issued = [p \in Procs |-> 0]
    /\ planResult = [p \in Procs |-> NoPlan]

Ch07Spec == InitCh07 /\ [][Ch07Next]_vars

TypeOK ==
    /\ chapter \in {"ch04", "ch06"}
    /\ \A p \in Procs : pc[p] \in {"idle", "begin", "payer", "payee", "commit", "done"}

\* ------------------------------------------------- vocabulary of the claims
Running(p) == pc[p] \in {"begin", "payer", "payee", "commit"}
Done(p) == pc[p] = "done"
Succeeded(p) == Done(p) /\ outcome[p].kind = "response"
FailedWith(p, err) == Done(p) /\ outcome[p] = Failure(err)
\* the invocation of p handled a datastore answer in this step
Stepped(p) == Running(p) /\ (pc'[p] # pc[p] \/ attempts'[p] # attempts[p])
\* this step is the successful COMMIT of p's transfer
CommitsNow(p) == pc[p] = "commit" /\ pc'[p] = "done" /\ outcome'[p].kind = "response"
\* this step delivers a new request to p
InvokedNow(p) == invNo'[p] # invNo[p]
\* the datastore answered this invocation with an error of its own
DatastoreFailed(p) == outcome[p].kind = "error" /\ outcome[p].error \in DatastoreErrors

\* ---------------------------------------------------------------- claims

\* C1: a successful transfer between two different existing accounts, with
\* payer balance >= amount >= 0, debits the payer by exactly amount and
\* credits the payee by exactly amount in one commit, so the sum of the two
\* balances is what it was before (ch04 and ch06 alike).
C1_TransferPreservesSum ==
    [][\A p \in Procs :
        LET payer == event[p].payer_id
            payee == event[p].payee_id
            amount == event[p].amount
        IN (/\ CommitsNow(p)
            /\ payer # payee
            /\ payer \in DOMAIN accounts /\ payee \in DOMAIN accounts
            /\ accounts[payer] >= amount /\ amount >= 0)
           => /\ accounts'[payer] = accounts[payer] - amount
              /\ accounts'[payee] = accounts[payee] + amount
              /\ accounts'[payer] + accounts'[payee] = accounts[payer] + accounts[payee]
              /\ \A id \in DOMAIN accounts \ {payer, payee} : accounts'[id] = accounts[id]
    ]_vars

C1_Witness ==
    \E p \in Procs :
        /\ Succeeded(p) /\ ~interfered[p]
        /\ accounts[event[p].payer_id] = pre[p][event[p].payer_id] - event[p].amount
        /\ accounts[event[p].payee_id] = pre[p][event[p].payee_id] + event[p].amount

\* C2: no transfer commits a negative payer balance: an attempt whose payer
\* decrement returned a negative balance never gets to the payee statement
\* or to COMMIT, and the commit of a successful transfer leaves the payer's
\* committed balance, which is the balance the response reports, >= 0.
C2_NoNegativePayerCommit ==
    /\ [](\A p \in Procs :
            /\ pc[p] \in {"payee", "commit"} => tx[p].view[event[p].payer_id] >= 0
            /\ Succeeded(p) => outcome[p].payer_balance >= 0)
    /\ [][\A p \in Procs :
            CommitsNow(p) => /\ accounts'[event[p].payer_id] >= 0
                             /\ accounts'[event[p].payer_id] = outcome'[p].payer_balance
       ]_vars

C2_Witness ==
    \E p \in Procs :
        /\ FailedWith(p, InsufficientBalance)
        /\ \E q \in Procs : Succeeded(q) /\ accounts[event[q].payer_id] = 0

\* C3: in the ch06 handler a COMMIT answered with a serialization failure
\* (40001) starts a new attempt (attempt counter + 1, the old transaction
\* gone, a new BEGIN awaited whose transaction starts from the committed
\* table with nothing written), and a COMMIT that succeeds ends the loop
\* with a success response.
C3_RetryOnCommitConflict ==
    [][\A p \in Procs : chapter = "ch06" =>
        /\ (pc[p] = "commit" /\ Stepped(p)
               /\ last'[p] = Answer("commit", PostgresError(OccCode)))
           => /\ pc'[p] = "begin"
              /\ attempts'[p] = attempts[p] + 1
              /\ tx'[p] = NoTx
              /\ outcome'[p].kind = "none"
        /\ (pc[p] = "begin" /\ pc'[p] = "payer")
           => tx'[p].view = accounts /\ tx'[p].wset = {}
        /\ (pc[p] = "commit" /\ Stepped(p) /\ last'[p] = Answer("commit", NoError))
           => /\ pc'[p] = "done"
              /\ outcome'[p].kind = "response"
              /\ outcome'[p].attempts = attempts[p]
    ]_vars

C3_Witness ==
    \E p \in Procs :
        /\ chapter = "ch06"
        /\ Succeeded(p)
        /\ outcome[p].attempts = 2
        /\ faults = 0

\* C4: an error that is not a serialization conflict ends the invocation on
\* the attempt where it occurs: no further attempt is started and that same
\* error is what the caller gets.
C4_OnlyConflictAbsorbed ==
    [][\A p \in Procs :
        (Stepped(p) /\ last'[p].error # NoError /\ last'[p].error.code # OccCode)
        => /\ pc'[p] = "done"
           /\ outcome'[p] = Failure(last'[p].error)
           /\ attempts'[p] = attempts[p]
           /\ tx'[p] = NoTx
           /\ accounts' = accounts
    ]_vars

C4_Witness ==
    \E p \in Procs :
        /\ chapter = "ch06"
        /\ FailedWith(p, PostgresError(ConnCode))
        /\ \E q \in Procs : chapter = "ch06" /\ FailedWith(q, PayeeNotFound)

C6_SameAccountRejectedBeforeIO ==
    /\ [][\A p \in Procs :
            (InvokedNow(p) /\ event'[p].payer_id = event'[p].payee_id)
            => /\ pc'[p] = "done"
               /\ outcome'[p] = Failure(InvalidRequest)
               /\ cachedClient' = cachedClient
               /\ ~touched'[p]
               /\ ~tx'[p].open
               /\ last'[p] = NoAnswer
               /\ accounts' = accounts
       ]_vars
    /\ [](\A p \in Procs :
            outcome[p] = Failure(InvalidRequest)
            => /\ Done(p) /\ ~touched[p] /\ ~tx[p].open /\ last[p] = NoAnswer
               /\ attempts[p] = 0
               /\ ~interfered[p] => accounts = pre[p])

C6_Witness ==
    \E p \in Procs :
        /\ FailedWith(p, InvalidRequest)
        /\ cachedClient[p] = NullClient
        /\ invNo[p] = 1

\* C7: a request whose amount exceeds the payer's committed balance fails
\* with the insufficient-balance error (unless the datastore itself failed
\* first), and when the invocation has returned the committed table is what
\* it was when the invocation began: the decrement made inside the
\* transaction is rolled back.  "Before" and "after" are compared when no
\* other invocation committed in between.
C7_InsufficientBalanceRollsBack ==
    /\ [](\A p \in Procs :
            LET payer == event[p].payer_id
                payee == event[p].payee_id
            IN /\ (/\ Done(p) /\ ~interfered[p]
                   /\ payer # payee
                   /\ payer \in DOMAIN pre[p]
                   /\ pre[p][payer] < event[p].amount)
                  => /\ outcome[p].kind = "error"
                     /\ ~DatastoreFailed(p) => outcome[p].error = InsufficientBalance
                     /\ accounts = pre[p]
                     /\ ~tx[p].open
               /\ FailedWith(p, InsufficientBalance)
                  => /\ ~tx[p].open
                     /\ last[p] = Answer("payer", InsufficientBalance)
                     /\ ~interfered[p] => accounts = pre[p])
    /\ [][\A p \in Procs :
            (Stepped(p) /\ outcome'[p] = Failure(InsufficientBalance))
            => /\ pc[p] = "payer"
               /\ tx[p].view[event[p].payer_id] < event[p].amount
               /\ accounts' = accounts
       ]_vars

C7_Witness ==
    \E p \in Procs :
        /\ FailedWith(p, InsufficientBalance)
        /\ ~interfered[p]
        /\ pre[p][event[p].payer_id] < event[p].amount
        /\ event[p].payee_id \in DOMAIN accounts

\* C8: a request whose payee has no row fails with the payee-not-found
\* error (unless the datastore itself failed first) and nothing is
\* committed: the payer's committed balance is what it was before, even
\* though the transaction had already decremented it in its own view.
C8_PayeeNotFoundRollsBack ==
    /\ [](\A p \in Procs :
            LET payer == event[p].payer_id
                payee == event[p].payee_id
            IN /\ (/\ Done(p) /\ ~interfered[p]
                   /\ payer # payee
                   /\ payer \in DOMAIN pre[p]
                   /\ payee \notin DOMAIN pre[p]
                   /\ pre[p][payer] >= event[p].amount)
                  => /\ outcome[p].kind = "error"
                     /\ ~DatastoreFailed(p) => outcome[p].error = PayeeNotFound
                     /\ accounts[payer] = pre[p][payer]
                     /\ accounts = pre[p]
               /\ FailedWith(p, PayeeNotFound)
                  => /\ ~tx[p].open
                     /\ ~interfered[p] => accounts = pre[p])
    /\ [][\A p \in Procs :
            (Stepped(p) /\ outcome'[p] = Failure(PayeeNotFound))
            => /\ pc[p] = "payee"
               /\ event[p].payer_id \in tx[p].wset
               /\ tx[p].view[event[p].payer_id]
                    = accounts[event[p].payer_id] - event[p].amount
                  \/ event[p].payer_id \in tx[p].stale
               /\ tx'[p] = NoTx
               /\ accounts' = accounts
       ]_vars

C8_Witness ==
    \E p \in Procs :
        /\ FailedWith(p, PayeeNotFound)
        /\ ~interfered[p]
        /\ event[p].payer_id \in DOMAIN accounts
        /\ accounts[event[p].payer_id] = pre[p][event[p].payer_id]
        /\ event[p].amount > 0

\* C9: a request whose payer has no row fails with the payer-not-found
\* error (unless the datastore itself failed first); the invocation never
\* issues the payee statement and commits nothing, so the payee's balance
\* and every other balance are unchanged.
C9_PayerNotFoundLeavesPayee ==
    /\ [](\A p \in Procs :
            LET payer == event[p].payer_id
                payee == event[p].payee_id
            IN /\ (payer # payee /\ payer \notin DOMAIN accounts)
                  => /\ pc[p] \notin {"payee", "commit"}
                     /\ Done(p) => outcome[p].kind = "error"
                     /\ (Done(p) /\ ~DatastoreFailed(p)) => outcome[p].error = PayerNotFound
                     /\ (Done(p) /\ ~interfered[p]) => accounts = pre[p]
               /\ FailedWith(p, PayerNotFound)
                  => /\ last[p] = Answer("payer", PayerNotFound)
                     /\ payer \notin DOMAIN accounts
                     /\ ~interfered[p] => accounts = pre[p])
    /\ [][\A p \in Procs :
            (Stepped(p) /\ outcome'[p] = Failure(PayerNotFound))
            => /\ pc[p] = "payer"
               /\ tx[p].wset = {}
               /\ accounts' = accounts
       ]_vars

C9_Witness ==
    \E p \in Procs :
        /\ FailedWith(p, PayerNotFound)
        /\ ~interfered[p]
        /\ event[p].payee_id \in DOMAIN accounts
        /\ accounts[event[p].payee_id] = pre[p][event[p].payee_id]

\* C10: with concurrent ch06 invocations over overlapping accounts, under
\* fair scheduling every invocation that was started returns: with a
\* success response, or with an error that is not a serialization conflict.
C10_EveryInvocationReturns ==
    \A p \in Procs :
        (chapter = "ch06" /\ Running(p))
        ~> (Done(p) /\ (\/ outcome[p].kind = "response"
                        \/ /\ outcome[p].kind = "error"
                           /\ outcome[p].error.code # OccCode))

C10_Witness ==
    \E p, q \in Procs :
        /\ p # q
        /\ chapter = "ch06"
        /\ Succeeded(p) /\ Succeeded(q)
        /\ outcome[p].attempts > 1
        /\ {event[p].payer_id, event[p].payee_id}
             \cap {event[q].payer_id, event[q].payee_id} # {}

\* C11: under any interleaving of concurrent transfer invocations, retries
\* included, once every invocation has returned each account's committed
\* balance is its initial balance plus the amounts of the successful
\* transfers that credited it minus the amounts of the successful transfers
\* that debited it; a step that is not the commit of a successful transfer
\* (an aborted attempt, a failed invocation) changes no balance.
C11_BalancesAreNetOfSuccesses ==
    /\ []((\A p \in Procs : ~Running(p)) =>
            \A id \in ExistingIds : accounts[id] = InitAccounts[id] + ledger[id])
    /\ [][(\A p \in Procs : ~CommitsNow(p)) => accounts' = accounts]_vars

\* both invocations have returned successfully, one of them after an abort
C11_Witness ==
    /\ \A p \in Procs : Succeeded(p)
    /\ \E p \in Procs : aborts[p] >= 1
    /\ \E id \in ExistingIds : ledger[id] # 0

\* C12: the attempts field of every successful ch06 response is at least 1
\* and equals the number of transactions the invocation began, which is 1
\* plus the number of serialization failures (SQLSTATE 40001) the invocation
\* was answered with before its commit succeeded.
C12_AttemptsCountsTransactions ==
    \A p \in Procs :
        (chapter = "ch06" /\ Succeeded(p)) =>
            /\ outcome[p].attempts >= 1
            /\ outcome[p].attempts = begun[p]
            /\ outcome[p].attempts = 1 + aborts[p]

\* a response after two aborted transactions
C12_Witness ==
    \E p \in Procs :
        /\ chapter = "ch06"
        /\ Succeeded(p)
        /\ outcome[p].attempts = 3
        /\ begun[p] = 3
        /\ aborts[p] = 2

\* C13: in an uncontended run (no other transfer commits during the
\* invocation and the datastore answers no error of its own) a ch06 transfer
\* between two different existing accounts whose payer can afford the amount
\* succeeds on its first attempt: the response has attempts = 1 and a
\* payer_balance equal to the payer's balance before the invocation minus
\* the amount, which is the payer's committed balance, and the sum of the
\* two balances is what it was.
C13_UncontendedFirstAttempt ==
    \A p \in Procs :
        LET payer == event[p].payer_id
            payee == event[p].payee_id
        IN  (/\ chapter = "ch06"
             /\ Done(p)
             /\ ~interfered[p]
             /\ faults = 0
             /\ payer # payee
             /\ payer \in ExistingIds
             /\ payee \in ExistingIds
             /\ pre[p][payer] >= event[p].amount)
            => /\ outcome[p].kind = "response"
               /\ outcome[p].attempts = 1
               /\ outcome[p].payer_balance = pre[p][payer] - event[p].amount
               /\ accounts[payer] = outcome[p].payer_balance
               /\ accounts[payer] + accounts[payee] = pre[p][payer] + pre[p][payee]

\* the first transfer of the run, from A (balance 2) to B (balance 1) of 1,
\* has answered payer_balance 1 with attempts 1 and the sum is still 3
C13_Witness ==
    \E p \in Procs :
        /\ chapter = "ch06"
        /\ Succeeded(p)
        /\ ~interfered[p]
        /\ faults = 0
        /\ event[p] = [payer_id |-> "A", payee_id |-> "B", amount |-> 1]
        /\ pre[p] = InitAccounts
        /\ outcome[p].payer_balance = 1
        /\ outcome[p].attempts = 1
        /\ accounts["A"] + accounts["B"] = 3

\* C14: nothing is carried over from a failed attempt: every attempt starts
\* with no transaction state, and the payer_balance of a response is the
\* value the payer decrement of the attempt that committed returned (the
\* payer's balance in that transaction, which the commit makes the committed
\* one), never a value computed by an earlier, aborted attempt.
C14_ResponseFromCommittingAttempt ==
    /\ [](\A p \in Procs : pc[p] = "begin" => tx[p] = NoTx)
    /\ [][\A p \in Procs :
            CommitsNow(p) =>
                /\ outcome'[p].payer_balance = tx[p].ret
                /\ tx[p].ret = tx[p].view[event[p].payer_id]
                /\ accounts'[event[p].payer_id] = outcome'[p].payer_balance]_vars

\* a response of the second attempt whose payer_balance differs from what
\* the first attempt, aborted by a conflict at its commit, had computed from
\* the balances it saw
C14_Witness ==
    \E p \in Procs :
        /\ Succeeded(p)
        /\ faults = 0
        /\ outcome[p].attempts = 2
        /\ aborts[p] = 1
        /\ outcome[p].payer_balance # pre[p][event[p].payer_id] - event[p].amount
        /\ outcome[p].payer_balance = accounts[event[p].payer_id]

\* C15: getConnection is idempotent within a process lifetime: a process
\* constructs at most one client, the cache is empty exactly until that
\* construction, and once a client is cached every later call of
\* getConnection returns that same client and constructs no other.
C15_GetConnectionIdempotent ==
    /\ [](\A p \in Procs :
            /\ created[p] <= 1
            /\ (created[p] = 0) <=> (cachedClient[p] = NullClient))
    /\ [][\A p \in Procs :
            cachedClient[p] # NullClient =>
                /\ cachedClient'[p] = cachedClient[p]
                /\ created'[p] = created[p]]_vars

\* the second invocation of a process has called getConnection and runs on
\* the one client the process constructed in its first invocation
C15_Witness ==
    \E p \in Procs :
        /\ invNo[p] = 2
        /\ touched[p]
        /\ Running(p)
        /\ created[p] = 1
        /\ cachedClient[p] = 1

\* C16: the ch06 retry loop is strictly sequential: an invocation has a
\* transaction open only between its BEGIN and the answer that ends that
\* attempt, the transaction open during attempt k is the k-th the invocation
\* began, attempt k+1 is counted only in the step in which attempt k's
\* transaction is rolled back, and from there the invocation's next
\* datastore action is the BEGIN of the next attempt.
C16_RetryLoopSequential ==
    /\ [](\A p \in Procs :
            /\ pc[p] \in {"idle", "begin", "done"} => ~tx[p].open
            /\ pc[p] \in {"payer", "payee", "commit"} => tx[p].open
            /\ (chapter = "ch06" /\ tx[p].open) => begun[p] = attempts[p]
            /\ (chapter = "ch06" /\ pc[p] = "begin") => begun[p] = attempts[p] - 1)
    /\ [][\A p \in Procs :
            /\ (attempts'[p] > attempts[p] /\ ~InvokedNow(p)) =>
                    /\ tx[p].open
                    /\ ~tx'[p].open
                    /\ attempts'[p] = attempts[p] + 1
                    /\ pc'[p] = "begin"
                    /\ accounts' = accounts
            /\ (pc[p] = "begin" /\ Stepped(p)) =>
                    \/ pc'[p] = "payer" /\ tx'[p].open /\ begun'[p] = begun[p] + 1
                    \/ pc'[p] = "done" /\ outcome'[p].kind = "error"]_vars

\* the second attempt is about to begin: the first was aborted by a conflict
\* at its commit and its transaction is gone
C16_Witness ==
    \E p \in Procs :
        /\ chapter = "ch06"
        /\ pc[p] = "begin"
        /\ attempts[p] = 2
        /\ begun[p] = 1
        /\ ~tx[p].open
        /\ last[p] = Answer("commit", PostgresError(OccCode))

\* C17: every invocation (ch04 and ch06) ends in exactly one outcome: while
\* it runs it has none, when it is over it has either a complete response
\* or a propagated error and never both, an error carries no response field,
\* and an outcome once produced is never replaced or followed by another
\* within the invocation.
C17_ExactlyOneOutcome ==
    /\ [](\A p \in Procs :
            /\ Running(p) => outcome[p].kind = "none"
            /\ Done(p) => outcome[p].kind \in {"response", "error"}
            /\ outcome[p].kind = "response" =>
                    /\ outcome[p].error = NoError
                    /\ chapter = "ch06" => outcome[p].attempts >= 1
            /\ outcome[p].kind = "error" =>
                    /\ outcome[p].error # NoError
                    /\ outcome[p] = Failure(outcome[p].error))
    /\ [][\A p \in Procs :
            /\ (outcome[p].kind # "none" /\ ~InvokedNow(p)) => outcome'[p] = outcome[p]
            /\ (outcome[p].kind = "none" /\ outcome'[p].kind # "none") => pc'[p] = "done"]_vars

\* one invocation has ended with an error after an aborted attempt, the
\* other with a response
C17_Witness ==
    \E p, q \in Procs :
        /\ Done(p)
        /\ outcome[p].kind = "error"
        /\ aborts[p] >= 1
        /\ Succeeded(q)

\* C18: a failed invocation has no side effect on the datastore, whatever
\* error ends it (same account, payer not found, insufficient balance, payee
\* not found, a datastore error, in ch04 a serialization failure): the step
\* that ends an invocation with an error changes no committed balance and
\* leaves no transaction open, and when no other transfer committed during
\* the invocation the committed balances are those from before it.
C18_FailureHasNoSideEffects ==
    /\ [](\A p \in Procs :
            (Done(p) /\ outcome[p].kind = "error") =>
                /\ ~tx[p].open
                /\ ~interfered[p] => accounts = pre[p])
    /\ [][\A p \in Procs :
            (outcome'[p].kind = "error" /\ outcome'[p] # outcome[p]) =>
                accounts' = accounts]_vars

\* the connection failed at COMMIT, after both updates ran in the
\* transaction, and the committed balances are those from before
C18_Witness ==
    \E p \in Procs :
        /\ FailedWith(p, PostgresError(ConnCode))
        /\ last[p] = Answer("commit", PostgresError(ConnCode))
        /\ ~interfered[p]
        /\ accounts = pre[p]

\* C19: the retry loop has no iteration cap.  Against a datastore that
\* answers every COMMIT with a serialization failure the handler never
\* gives up: every such answer, whatever the attempt count, is followed by
\* one more attempt and produces no outcome, an invocation that was aborted
\* once never ends, and an invocation ends only with an error that is not a
\* serialization failure (a commit never succeeds there), so the attempt
\* counter reaches every value the model allows.
C19_NoIterationCap ==
    /\ [](\A p \in Procs :
            /\ Done(p) => (outcome[p].kind = "error" /\ outcome[p].error.code # OccCode)
            /\ aborts[p] >= 1 => Running(p))
    /\ [][\A p \in Procs :
            (pc[p] = "commit" /\ Stepped(p)) =>
                /\ attempts'[p] = attempts[p] + 1
                /\ pc'[p] = "begin"
                /\ outcome'[p] = outcome[p]]_vars

\* the invocation is in its MaxAttempts-th attempt after MaxAttempts - 1
\* rejected commits
C19_Witness ==
    \E p \in Procs :
        /\ pc[p] = "commit"
        /\ attempts[p] = MaxAttempts
        /\ aborts[p] = MaxAttempts - 1
        /\ begun[p] = MaxAttempts

\* C20: the ch04 handler performs no retry: an invocation begins at most one
\* transaction, exactly one once BEGIN was answered, and a serialization
\* failure of that transaction ends the invocation with that error and
\* changes no balance; the ch06 handler answers the same serialization
\* failure with one more attempt and never surfaces it, so the response
\* that follows has attempts > 1.
C20_Ch04SurfacesConflict ==
    /\ [](\A p \in Procs :
            /\ chapter = "ch04" =>
                    /\ begun[p] <= 1
                    /\ pc[p] \in {"payer", "payee", "commit"} => begun[p] = 1
                    /\ (Done(p) /\ touched[p] /\ last[p].at # "begin") => begun[p] = 1
                    /\ aborts[p] >= 1 => FailedWith(p, PostgresError(OccCode))
            /\ chapter = "ch06" =>
                    /\ Done(p) => outcome[p].error.code # OccCode
                    /\ (Succeeded(p) /\ aborts[p] >= 1) => outcome[p].attempts > 1)
    /\ [][\A p \in Procs :
            (aborts'[p] = aborts[p] + 1) =>
                IF chapter = "ch04"
                THEN /\ outcome'[p] = Failure(PostgresError(OccCode))
                     /\ pc'[p] = "done"
                     /\ accounts' = accounts
                ELSE /\ outcome'[p] = outcome[p]
                     /\ pc'[p] = "begin"
                     /\ attempts'[p] = attempts[p] + 1]_vars

\* under ch04 the transfer that lost the race has ended with the
\* serialization failure of its one transaction, the other has succeeded
C20_Witness ==
    \E p, q \in Procs :
        /\ chapter = "ch04"
        /\ faults = 0
        /\ FailedWith(p, PostgresError(OccCode))
        /\ last[p] = Answer("commit", PostgresError(OccCode))
        /\ begun[p] = 1
        /\ Succeeded(q)

\* C21: isOccError classifies a value as a conflict exactly when it has a
\* code field equal to '40001'.  Every other value (another code, an empty
\* code, an error with no code field such as the thrown not-found and
\* insufficient-balance errors, null, undefined) is not retryable: the
\* ch06 handler retries on the first kind and surfaces the second kind to
\* the caller as it is.
C21_IsOccErrorExactly40001 ==
    /\ [](\A err \in ErrorValues :
            isOccError(err) <=> ("code" \in DOMAIN err /\ err.code = "40001"))
    /\ [][\A p \in Procs : \A err \in ErrorValues :
            (Stepped(p) /\ last'[p] = [at |-> pc[p], error |-> err]) =>
                IF "code" \in DOMAIN err /\ err.code = "40001"
                THEN /\ pc'[p] = "begin"
                     /\ attempts'[p] = attempts[p] + 1
                     /\ outcome'[p] = outcome[p]
                ELSE /\ pc'[p] = "done"
                     /\ attempts'[p] = attempts[p]
                     /\ outcome'[p].kind = "error"
                     /\ outcome'[p].error = err]_vars

\* one invocation retried on a 40001 and then ended with null, the other
\* ended with a deadlock error
C21_Witness ==
    \E p, q \in Procs :
        /\ Done(p)
        /\ aborts[p] = 1
        /\ attempts[p] = 2
        /\ outcome[p].error = JsNull
        /\ Done(q)
        /\ attempts[q] = 1
        /\ outcome[q].error = PostgresError("40P01")

\* C22: the cached client of a process is used by at most one in-flight
\* attempt at a time: a transaction runs on the cached client of its own
\* process and belongs to the running invocation, a transaction is begun on
\* a client only when no transaction is open on it, and an invocation starts
\* only when the previous invocation of the process has settled with no
\* transaction open.
C22_OneAttemptPerClient ==
    /\ [](\A p \in Procs :
            tx[p].open =>
                /\ Running(p)
                /\ cachedClient[p] # NullClient
                /\ tx[p].client = cachedClient[p])
    /\ [][\A p \in Procs :
            /\ (pc[p] = "begin" /\ tx'[p].open) => ~tx[p].open
            /\ InvokedNow(p) => (~Running(p) /\ ~tx[p].open)]_vars

\* the second invocation of a process has a transaction open on the cached
\* client its first invocation left behind
C22_Witness ==
    \E p \in Procs :
        /\ invNo[p] = 2
        /\ created[p] = 1
        /\ tx[p].open
        /\ tx[p].client = 1
        /\ pc[p] = "commit"

\* C23: the control flow of the ch06 handler refines the machine with the
\* two states Attempting (the invocation runs) and Done (it has returned).
\* A step from Attempting to Attempting either continues the attempt and
\* leaves the attempt count alone, or is a conflict (a 40001 answer) that
\* starts the next attempt; a step from Attempting to Done is either the
\* successful commit, with a response, or an error that is not a conflict,
\* with that error; Done is absorbing: until the next invocation the
\* process issues no datastore statement and changes neither its result nor
\* its attempt count.
C23_RefinesTwoStateMachine ==
    [][chapter = "ch06" =>
        \A p \in Procs :
            /\ (Running(p) /\ pc'[p] \in {"begin", "payer", "payee", "commit"}) =>
                    IF aborts'[p] = aborts[p] + 1
                    THEN /\ attempts'[p] = attempts[p] + 1
                         /\ pc'[p] = "begin"
                         /\ CodeOf(last'[p].error) = OccCode
                         /\ outcome'[p] = NoOutcome
                    ELSE /\ attempts'[p] = attempts[p]
                         /\ aborts'[p] = aborts[p]
                         /\ outcome'[p] = NoOutcome
            /\ (Running(p) /\ pc'[p] = "done") =>
                    \/ /\ outcome'[p].kind = "response"
                       /\ last'[p] = Answer("commit", NoError)
                       /\ pc[p] = "commit"
                    \/ /\ outcome'[p].kind = "error"
                       /\ outcome'[p].error = last'[p].error
                       /\ CodeOf(outcome'[p].error) # OccCode
            /\ Running(p) => pc'[p] # "idle"
            /\ (Done(p) /\ ~InvokedNow(p)) =>
                    /\ pc'[p] = "done"
                    /\ outcome'[p] = outcome[p]
                    /\ attempts'[p] = attempts[p]
                    /\ begun'[p] = begun[p]
                    /\ last'[p] = last[p]
                    /\ tx'[p] = NoTx]_vars

\* one invocation went Attempting, conflict, Attempting, Done(success), the
\* other went Attempting, Done(failure)
C23_Witness ==
    \E p, q \in Procs :
        /\ chapter = "ch06"
        /\ Succeeded(p)
        /\ aborts[p] = 1
        /\ outcome[p].attempts = 2
        /\ Done(q)
        /\ outcome[q].kind = "error"
        /\ aborts[q] = 0

\* C24: in every committed state of the table, whatever the interleaving of
\* successful, failed and retried invocations, the sum of all balances is
\* the initial sum; and the snapshot every transaction starts from has that
\* sum too, so a debit without its credit is never committed nor visible
\* to another invocation.
C24_TotalBalanceConstant ==
    /\ [](Sum(accounts) = Sum(InitAccounts))
    /\ [][\A p \in Procs :
            (pc[p] = "begin" /\ tx'[p].open) =>
                /\ tx'[p].view = accounts
                /\ Sum(tx'[p].view) = Sum(InitAccounts)]_vars

\* a transfer has been committed and another invocation, which had debited
\* its payer inside its transaction, has failed on a missing payee
C24_Witness ==
    \E p, q \in Procs :
        /\ accounts # InitAccounts
        /\ Succeeded(p)
        /\ FailedWith(q, PayeeNotFound)
        /\ last[q] = Answer("payee", PayeeNotFound)

\* C25: every successful invocation has committed exactly one transaction
\* and every failed invocation none, however many attempts it made: no
\* invocation commits twice, the one commit applies the transfer once, and
\* an attempt that was answered with a conflict has committed and applied
\* nothing.
C25_OneCommitPerSuccess ==
    /\ [](\A p \in Procs :
            /\ commits[p] <= 1
            /\ Succeeded(p) => commits[p] = 1
            /\ (Done(p) /\ outcome[p].kind = "error") => commits[p] = 0
            /\ Running(p) => commits[p] = 0)
    /\ [][\A p \in Procs :
            /\ (aborts'[p] = aborts[p] + 1) =>
                    (accounts' = accounts /\ commits'[p] = commits[p])
            /\ (commits'[p] = commits[p] + 1) =>
                    accounts' = Posted(accounts, event[p])]_vars

\* a success on the third attempt, after two aborted ones, with one commit
C25_Witness ==
    \E p \in Procs :
        /\ Succeeded(p)
        /\ begun[p] = 3
        /\ aborts[p] = 2
        /\ commits[p] = 1
        /\ accounts[event[p].payer_id] = outcome[p].payer_balance

\* C26: within one attempt executeTransfer runs payer decrement, payer-exists
\* check, negative-balance check, payee increment, payee row-count check, in
\* that order and stopping at the first failure.  The answer to the payer
\* decrement ends the attempt with "Payer account not found" when the payer
\* has no row, whatever the amount and the payee, else with "Insufficient
\* balance" when the decremented balance is negative, whatever the payee;
\* only otherwise is the payee increment issued, after the payer's row
\* alone was written, and only there can "Payee account not found" be
\* reported.
C26_StepsInOrderFirstFailureWins ==
    /\ [](\A p \in Procs :
            /\ pc[p] \in {"payee", "commit"} =>
                    /\ event[p].payer_id \in DOMAIN tx[p].view
                    /\ event[p].payer_id \in tx[p].wset
                    /\ tx[p].ret >= 0
            /\ event[p].payee_id \in tx[p].wset => pc[p] = "commit"
            /\ FailedWith(p, PayeeNotFound) =>
                    /\ event[p].payer_id \in ExistingIds
                    /\ last[p] = Answer("payee", PayeeNotFound))
    /\ [][\A p \in Procs :
            LET payer == event[p].payer_id
                payee == event[p].payee_id
                view == tx[p].view
            IN  /\ (pc[p] = "payer" /\ Stepped(p)) =>
                        IF payer \notin DOMAIN view
                        THEN pc'[p] = "done" /\ outcome'[p] = Failure(PayerNotFound)
                        ELSE IF view[payer] - event[p].amount < 0
                        THEN pc'[p] = "done" /\ outcome'[p] = Failure(InsufficientBalance)
                        ELSE /\ pc'[p] = "payee"
                             /\ tx'[p].wset = {payer}
                             /\ tx'[p].view[payer] = view[payer] - event[p].amount
                /\ (pc[p] = "payee" /\ Stepped(p)) =>
                        IF payee \notin DOMAIN view
                        THEN pc'[p] = "done" /\ outcome'[p] = Failure(PayeeNotFound)
                        ELSE /\ pc'[p] = "commit"
                             /\ tx'[p].wset = {payer, payee}]_vars

\* neither account of the request has a row: the payer is the one reported
C26_Witness ==
    \E p \in Procs :
        /\ event[p].payer_id = MissingId
        /\ event[p].payee_id = OtherMissingId
        /\ FailedWith(p, PayerNotFound)
        /\ begun[p] = 1

\* C27: every attempt of the ch06 handler, a retried one included, starts
\* from the committed state of the moment it begins and evaluates the
\* balance check on that state, not on what an aborted attempt or the start
\* of the invocation saw: the attempt fails with insufficient balance
\* exactly when the payer's balance in its own snapshot is below the amount,
\* and a transfer is committed only when the payer's committed balance at
\* the commit covers the amount.
C27_RetryReevaluatesChecks ==
    [][chapter = "ch06" =>
        \A p \in Procs :
            LET payer == event[p].payer_id
                amount == event[p].amount
            IN  /\ (pc[p] = "begin" /\ tx'[p].open) => tx'[p].view = accounts
                /\ (/\ pc[p] = "payer"
                    /\ Stepped(p)
                    /\ payer \in DOMAIN tx[p].view
                    /\ last'[p].error \notin DatastoreErrors) =>
                        IF tx[p].view[payer] < amount
                        THEN outcome'[p] = Failure(InsufficientBalance)
                        ELSE outcome'[p] = NoOutcome /\ pc'[p] = "payee"
                /\ CommitsNow(p) =>
                        /\ accounts[payer] >= amount
                        /\ accounts'[payer] = accounts[payer] - amount]_vars

\* the payer could afford the amount when the invocation started; its first
\* attempt was aborted by a conflict, and the retried attempt failed because
\* the transfer committed meanwhile left less than the amount
C27_Witness ==
    \E p \in Procs :
        /\ chapter = "ch06"
        /\ faults = 0
        /\ FailedWith(p, InsufficientBalance)
        /\ aborts[p] = 1
        /\ attempts[p] = 2
        /\ pre[p][event[p].payer_id] >= event[p].amount
        /\ accounts[event[p].payer_id] < event[p].amount

\* C28: starting from non-negative balances, after any sequence of committed
\* transfers accepted by the handler, whatever the sign or value of the
\* amount of each request, the committed balance of every account, payer or
\* payee, is >= 0.
C28_AllBalancesNonNegative ==
    \A id \in DOMAIN accounts : accounts[id] >= 0

\* C29: the boundary of the balance check.  An attempt whose payer has a
\* row fails with insufficient balance exactly when the payer's balance
\* after the decrement is strictly below 0; a balance of exactly 0 passes.
\* So a transfer of the payer's whole balance, between two different
\* existing accounts and undisturbed by other commits and datastore errors,
\* succeeds, answers payer_balance 0 and leaves the payer at exactly 0.
C29_BalanceCheckBoundary ==
    /\ [](\A p \in Procs :
            LET payer == event[p].payer_id
                payee == event[p].payee_id
            IN  (/\ Done(p)
                 /\ ~interfered[p]
                 /\ faults = 0
                 /\ payer # payee
                 /\ payer \in ExistingIds
                 /\ payee \in ExistingIds
                 /\ pre[p][payer] = event[p].amount)
                => /\ outcome[p].kind = "response"
                   /\ outcome[p].payer_balance = 0
                   /\ accounts[payer] = 0)
    /\ [][\A p \in Procs :
            LET payer == event[p].payer_id
            IN  (/\ pc[p] = "payer"
                 /\ Stepped(p)
                 /\ payer \in DOMAIN tx[p].view
                 /\ last'[p].error \notin DatastoreErrors)
                => /\ (tx[p].view[payer] - event[p].amount < 0)
                        <=> (last'[p].error = InsufficientBalance)
                   /\ (tx[p].view[payer] - event[p].amount >= 0)
                        <=> (pc'[p] = "payee" /\ tx'[p].ret = tx[p].view[payer] - event[p].amount)]_vars

\* one transfer took the payer's whole balance and left it at 0; the other
\* asked for one more than the payer had and failed
C29_Witness ==
    \E p, q \in Procs :
        /\ Succeeded(p)
        /\ pre[p][event[p].payer_id] = event[p].amount
        /\ outcome[p].payer_balance = 0
        /\ FailedWith(q, InsufficientBalance)
        /\ accounts[event[q].payer_id] - event[q].amount = 0 - 1

\* C30: as long as the datastore reports no serialization conflict to an
\* invocation, the ch06 handler and the ch04 handler behave alike on every
\* request: both reject a request that names one account twice, both end
\* with the datastore's error when it reports one, and otherwise both end
\* with what the ch04 transaction computes from the table the transaction
\* started from, the same error and no change of the table or the same
\* payer_balance and the same committed balances; the ch06 response
\* reports attempts = 1 in addition.
C30_Ch06EqualsCh04WithoutConflict ==
    [][\A p \in Procs :
        LET ref == Ch04Transfer(tx[p].snap, event[p])
            err == last'[p].error
        IN  /\ (InvokedNow(p) /\ event'[p].payer_id = event'[p].payee_id) =>
                    /\ pc'[p] = "done"
                    /\ outcome'[p] = Failure(InvalidRequest)
                    /\ accounts' = accounts
            /\ (Stepped(p) /\ err \in DatastoreErrors /\ err.code # OccCode) =>
                    /\ pc'[p] = "done"
                    /\ outcome'[p] = Failure(err)
                    /\ accounts' = accounts
            /\ (/\ Stepped(p)
                /\ pc'[p] = "done"
                /\ aborts'[p] = 0
                /\ err \notin DatastoreErrors) =>
                    IF ref.error # NoError
                    THEN /\ outcome'[p] = Failure(ref.error)
                         /\ accounts' = accounts
                    ELSE /\ outcome'[p].kind = "response"
                         /\ outcome'[p].payer_balance = ref.payer_balance
                         /\ chapter = "ch06" => outcome'[p].attempts = 1
                         /\ \A id \in {event[p].payer_id, event[p].payee_id} :
                                accounts'[id] = ref.table[id]
            /\ (/\ Stepped(p)
                /\ pc[p] = "commit"
                /\ aborts'[p] = 0) => ref.error = NoError]_vars

\* under ch06 a transfer has committed on its first attempt after another
\* transfer had committed, the datastore reporting no conflict
C30_Witness ==
    \E p, q \in Procs :
        /\ chapter = "ch06"
        /\ Succeeded(p)
        /\ Succeeded(q)
        /\ aborts[p] = 0
        /\ aborts[q] = 0
        /\ outcome[p].attempts = 1
        /\ outcome[q].attempts = 1
        /\ interfered[q]

\* C31: the connection cache survives failures: no step of a handler closes
\* or resets the cached client.  The step in which an invocation ends in an
\* error (a connectivity error included) leaves the cache as it was, the
\* next invocation of the same process that calls getConnection after a
\* failed one receives the same client and constructs no other, and once set
\* the cached client never changes.
C31_CacheSurvivesFailures ==
    [][\A p \in Procs :
        /\ (pc'[p] = "done" /\ outcome'[p].kind = "error") =>
                cachedClient'[p] = cachedClient[p]
        /\ (InvokedNow(p) /\ outcome[p].kind = "error" /\ touched'[p]
                /\ cachedClient[p] # NullClient) =>
                /\ cachedClient'[p] = cachedClient[p]
                /\ created'[p] = created[p]
        /\ cachedClient[p] # NullClient => cachedClient'[p] = cachedClient[p]]_vars

\* ch04: the only datastore error of the behaviour ended the first invocation
\* of p, which had cached client 1; the second invocation of p is running
\* after its call of getConnection, on client 1, the only one constructed
C31_Witness ==
    \E p \in Procs :
        /\ chapter = "ch04"
        /\ faults = 1
        /\ \A q \in Procs \ {p} : invNo[q] = 0
        /\ invNo[p] = 2
        /\ touched[p]
        /\ Running(p)
        /\ last[p].error = NoError
        /\ cachedClient[p] = 1
        /\ created[p] = 1

\* C32: the ch03 balance-read handler constructs a new client on every
\* invocation and ends it before the invocation's outcome is delivered, on
\* every path (balance returned, account not found, query error): a process
\* holds at most one client that is not ended, none once the invocation has
\* returned, the outcome delivered is the one the try/catch settled on, and
\* no step of the handler changes the accounts table.
C32_Ch03ClientEndedBeforeReturn ==
    /\ [](\A p \in Procs :
            /\ Cardinality(openClients[p]) <= 1
            /\ pc[p] \in {"idle", "done"} => openClients[p] = {}
            /\ outcome[p].kind # "none" => openClients[p] = {})
    /\ [][\A p \in Procs :
            /\ InvokedNow(p) =>
                    /\ created'[p] = created[p] + 1
                    /\ client'[p] = created'[p]
                    /\ client'[p] # client[p]
                    /\ openClients'[p] = {client'[p]}
            /\ (outcome'[p] # outcome[p] /\ outcome'[p].kind # "none") =>
                    /\ openClients[p] = {}
                    /\ outcome'[p] = pending[p]
            /\ accounts' = accounts]_vars

\* the second invocation of p has returned a query error: p constructed two
\* clients, one per invocation, and neither is open
C32_Witness ==
    \E p \in Procs :
        /\ chapter = "ch03"
        /\ invNo[p] = 2
        /\ Done(p)
        /\ outcome[p] = Failure(PostgresError(ConnCode))
        /\ created[p] = 2
        /\ client[p] = 2
        /\ openClients[p] = {}

\* the index range a launched worker runs its insert transactions for
Range(k) == workers[k].start .. workers[k].end

\* C33: once setup.sh has launched its workers, for every thread count
\* THREADS >= 1 (counts that do not divide 1000 and counts above 1000
\* included) the workers' index ranges lie in 1..1000, are pairwise disjoint
\* and cover every index of 1..1000 exactly once, so the workers run exactly
\* 1000 insert transactions in total.
C33_RangesPartitionTotal ==
    sh = "wait" =>
        /\ TOTAL_TRANSACTIONS = 1000
        /\ Len(pids) = THREADS
        /\ \A k \in 1..THREADS : Range(k) \subseteq 1..TOTAL_TRANSACTIONS
        /\ \A j, k \in 1..THREADS : j # k => Range(j) \cap Range(k) = {}
        /\ \A n \in 1..TOTAL_TRANSACTIONS :
                Cardinality({k \in 1..THREADS : n \in Range(k)}) = 1

\* 7 workers launched for 1000 transactions, which 7 does not divide: the
\* first six have 142 indexes each and the last one has 148, up to 1000
C33_Witness ==
    /\ THREADS = 7
    /\ sh = "wait"
    /\ Len(pids) = 7
    /\ workers[1].start = 1
    /\ workers[1].end = 142
    /\ workers[6].end = 852
    /\ workers[7].start = 853
    /\ workers[7].end = 1000

\* the indexes from..to in ascending order
Ascending(from, to) == [n \in 1..(to - from + 1) |-> from + n - 1]

\* C34: in setup.sh concurrent workers never write to the same file: a
\* worker file holds the output of its own worker's transactions only, in
\* the order the worker ran them, and changes only in a step of that worker
\* or when the parent removes it; uuids.txt is appended to only by the
\* parent's merge loop, after every worker has exited with status 0, and
\* receives the worker files in worker order; after a completed run
\* uuids.txt holds the output of every transaction once and no worker file
\* remains.
C34_WorkersWriteOwnFiles ==
    /\ [](\A k \in 1..THREADS :
            workerFiles[k].exists =>
                workerFiles[k].lines = Ascending(workers[k].start, workers[k].i - 1))
    /\ [](sh = "exit0" =>
            /\ \A k \in 1..THREADS : ~workerFiles[k].exists
            /\ uuids = Ascending(1, TOTAL_TRANSACTIONS))
    /\ [][\A k \in 1..THREADS :
            workerFiles'[k] # workerFiles[k] =>
                (\/ workers'[k] # workers[k]
                 \/ (sh \in {"merge", "cleanup_rm"} /\ workerFiles'[k] = NoFile))]_vars
    /\ [][uuids' # uuids =>
            (/\ sh = "merge"
             /\ workers' = workers
             /\ \A k \in 1..THREADS : workers[k].phase = "exit0"
             /\ uuids' = uuids \o workerFiles[t].lines
             /\ Len(uuids) = workers[t].start - 1)]_vars

\* a completed run of two workers over three transactions: worker 1 ran
\* transaction 1 and worker 2 ran 2 and 3, uuids.txt holds them in that
\* order and both worker files are gone
C34_Witness ==
    /\ THREADS = 2
    /\ TOTAL_TRANSACTIONS = 3
    /\ sh = "exit0"
    /\ workers[1].end = 1
    /\ workers[2].start = 2
    /\ \A k \in 1..THREADS : workers[k].phase = "exit0" /\ ~workerFiles[k].exists
    /\ uuids = <<1, 2, 3>>

\* C35: setup.sh cleans up on interruption or worker failure: once the
\* script has exited with status 1, no worker is running and no
\* uuids_worker_*.txt file exists.
C35_CleanupStopsWorkersAndRemovesFiles ==
    sh = "exit1" =>
        \A k \in 1..THREADS : ~Alive(k) /\ ~workerFiles[k].exists

\* the parameters a query operation runs with: those of the event, and the
\* defaults for the ones the event leaves out
QueryOf(ev) ==
    [metadata_key |-> IF ev.metadata_key = "undefined" THEN "account_tier_1"
                      ELSE ev.metadata_key,
     account_type |-> "savings", region_code |-> "US", status |-> "active"]

\* C36: the ch07 handler dispatches on operation.  'setup' goes to
\* setupDatabase, 'query' and 'query_optimized' to runQuery, 'optimize' to
\* optimizeIndexes, and any other value ends the invocation at once with the
\* unknown-operation error, no statement issued and the table untouched.  A
\* 'setup' that returns, after whatever operations ran before it and with no
\* other invocation changing the table while it ran, leaves accounts7 created
\* by itself, with 5000 rows and idx_accounts7_type as its only index.
\* 'query' and 'query_optimized' run the same EXPLAIN and the same SELECT
\* with the same parameters, and their responses carry the plan and the rows
\* of those, under the label of the operation.
C36_Ch07Dispatch ==
    /\ [](\A p \in Procs :
            /\ pc[p] \in {"drop", "create", "index", "insert1", "insert2"} =>
                    event[p].operation = "setup"
            /\ pc[p] \in {"explain", "select"} =>
                    event[p].operation \in {"query", "query_optimized"}
            /\ pc[p] \in {"opt1", "opt2"} => event[p].operation = "optimize"
            /\ (pc[p] = "done" /\ event[p].operation \notin
                    {"setup", "query", "optimize", "query_optimized"}) =>
                    (/\ outcome[p] = Failure(ThrownError("Unknown operation"))
                     /\ issued[p] = 0))
    /\ [][\A p \in Procs :
            /\ InvokedNow(p) =>
                    (/\ accounts7' = accounts7
                     /\ issued'[p] = 0
                     /\ event'[p].operation = "setup" => pc'[p] = "drop"
                     /\ event'[p].operation \in {"query", "query_optimized"} =>
                            pc'[p] = "explain"
                     /\ event'[p].operation = "optimize" => pc'[p] = "opt1")
            /\ (pc[p] = "insert2" /\ outcome'[p].kind = "response"
                    /\ ~interfered[p]) =>
                    (/\ outcome'[p].operation = "setup"
                     /\ accounts7'.exists
                     /\ accounts7'.rows = 5000
                     /\ accounts7'.indexes = {"idx_accounts7_type"}
                     /\ accounts7'.owner = [proc |-> p, inv |-> invNo[p]])
            /\ (pc[p] = "explain" /\ pc'[p] = "select") =>
                    planResult'[p] = QueryPlan(accounts7, QueryOf(event[p]))
            /\ (pc[p] = "select" /\ outcome'[p].kind = "response") =>
                    outcome'[p] =
                        [kind |-> "response",
                         operation |-> event[p].operation,
                         rows_returned |-> MatchingRows(accounts7, QueryOf(event[p])),
                         query_plan |-> planResult[p]]]_vars

\* accounts7 was there with the three indexes an 'optimize' leaves; the
\* second invocation of p, a 'setup' nothing interfered with, has returned:
\* its DROP TABLE removed the three indexes, and the table is the one this
\* invocation created, with 5000 rows and idx_accounts7_type alone
C36_Witness ==
    \E p \in Procs :
        /\ chapter = "ch07"
        /\ invNo[p] = 2
        /\ Done(p)
        /\ event[p].operation = "setup"
        /\ outcome[p].kind = "response"
        /\ ~interfered[p]
        /\ issued[p] = 5
        /\ accounts7.dropped = {IndexType, IndexMetadata, IndexCovering}
        /\ accounts7.owner = [proc |-> p, inv |-> 2]
        /\ accounts7.rows = 5000
        /\ accounts7.indexes = {IndexType}

====
